---------------------------- MODULE Spec2Model ----------------------------
(***************************************************************************)
(* Model of the WTG comment-link bot: the link recogniser of utils.py and  *)
(* the extraction pipeline of scraper.py (WTGScraper.scrape_game_page and  *)
(* the extractors it calls).                                               *)
(*                                                                         *)
(* Strings are sequences of one-character strings, so that the regular     *)
(* expressions and the str.split calls of the source are computed          *)
(* character by character.                                                 *)
(***************************************************************************)
EXTENDS Integers, Sequences, FiniteSets, TLC

VARIABLES
    \* ---- link recogniser (utils.py) ----
    text,        \* the message text given to extract_wtg_links
    links,       \* the list extract_wtg_links returned
    cand,        \* the string last given to validate_wtg_url
    valid,       \* what validate_wtg_url returned for cand
    lphase,      \* "input" | "extracted" | "validated"
    \* ---- scrape_game_page (scraper.py) ----
    pc,          \* position of the run inside scrape_game_page
    url,         \* the argument of scrape_game_page
    comment_id,  \* local of scrape_game_page (line 51)
    game_slug,   \* local of scrape_game_page (line 52)
    page_resp,   \* what the site answered to the page GET (line 61)
    api_resp,    \* what the site answered to the API GET (line 469)
    soup,        \* the parsed document (line 64), NoDoc before the fetch
    game_info,   \* local of scrape_game_page (line 67)
    comment_info,\* local of scrape_game_page (lines 73, 77)
    api_ret,     \* what _get_comment_from_api returned to line 73
    fb_ret,      \* what _extract_comment_info_fallback returned to line 77
    result,      \* what the call returned: NotReturned, None or a WTGData
    raised,      \* TRUE when an exception left scrape_game_page
    trace,       \* the external steps of the run, in order
    log,         \* the logger.error / logger.warning events of the run
    \* ---- the sanitizers and message formatters (utils.py) ----
    wtg_data,    \* the argument of format_game_message(_html)
    sanitized,   \* what sanitize_text / sanitize_html made of the comment text
    message,     \* what the formatter returned, or the exception it raised
    fphase,      \* "idle", "input", then the function that was applied
    \* ---- the bot's message handler (app.py) ----
    bot,         \* the handler's position, its locals and what the chat shows
    \* ---- concurrent scrape_game_page calls on the one WTGScraper ----
    calls,       \* per thread: the call's argument, the site's answers, its
                 \* position and what it returned
    frames,      \* the locals of scrape_game_page, one frame per call
    session      \* self.session: the headers and the requests sent through it

linkVars == <<text, links, cand, valid, lphase>>
scrapeVars == <<pc, url, comment_id, game_slug, page_resp, api_resp, soup, game_info, comment_info,
                api_ret, fb_ret, result, raised, trace, log>>
fmtVars == <<wtg_data, sanitized, message, fphase>>
botVars == <<bot>>
concVars == <<calls, frames, session>>
vars == <<text, links, cand, valid, lphase, pc, url, comment_id, game_slug,
          page_resp, api_resp, soup, game_info, comment_info, api_ret, fb_ret, result, raised,
          trace, log, wtg_data, sanitized, message, fphase, bot, calls, frames, session>>

(***************************************************************************)
(* Bounds of the model.                                                    *)
(***************************************************************************)
\* a message text is the concatenation of at most MaxPieces pieces
MaxPieces == 3
\* a comment id given to the scraper has at most MaxIdLen characters
MaxIdLen == 2
\* longest comment text made of every combination of FmtAlphabet
MaxTextLen == 3

(***************************************************************************)
(* Characters and strings.                                                 *)
(***************************************************************************)
UpperAlpha == <<"A","B","C","D","E","F","G","H","I","J","K","L","M",
                "N","O","P","Q","R","S","T","U","V","W","X","Y","Z">>
LowerAlpha == <<"a","b","c","d","e","f","g","h","i","j","k","l","m",
                "n","o","p","q","r","s","t","u","v","w","x","y","z">>

\* the case folding re.IGNORECASE applies to both sides of a comparison
Lower(c) ==
    IF \E i \in 1..26 : UpperAlpha[i] = c
    THEN LowerAlpha[CHOOSE i \in 1..26 : UpperAlpha[i] = c]
    ELSE c

Range(l) == {l[i] : i \in 1..Len(l)}
\* the number of times x occurs in the list l
Count(l, x) == Cardinality({i \in 1..Len(l) : l[i] = x})
Max(S) == CHOOSE m \in S : \A n \in S : n <= m
Min(S) == CHOOSE m \in S : \A n \in S : m <= n

RECURSIVE Flatten(_)
Flatten(ss) == IF ss = <<>> THEN <<>> ELSE Head(ss) \o Flatten(Tail(ss))

\* s[i..] begins with lit, compared exactly (str.split, str.find)
StartsAt(s, i, lit) ==
    /\ i >= 1
    /\ i + Len(lit) - 1 <= Len(s)
    /\ \A k \in 1..Len(lit) : s[i + k - 1] = lit[k]

\* s[i..] begins with lit, compared under re.IGNORECASE
StartsAtCI(s, i, lit) ==
    /\ i >= 1
    /\ i + Len(lit) - 1 <= Len(s)
    /\ \A k \in 1..Len(lit) : Lower(s[i + k - 1]) = Lower(lit[k])

(***************************************************************************)
(* The comment-URL pattern of utils.py:                                    *)
(*   https://wtg\.com\.ua/game/[^/]+/comment/[a-f0-9\-]+                   *)
(***************************************************************************)
PatPrefix == <<"h","t","t","p","s",":","/","/","w","t","g",".","c","o","m",
               ".","u","a","/","g","a","m","e","/">>
PatMiddle == <<"/","c","o","m","m","e","n","t","/">>

\* a character class of the pattern: the characters listed, or (neg) all others
SlugClass == [neg |-> TRUE, chars |-> {"/"}]
IdClass == [neg |-> FALSE,
            chars |-> {"a","b","c","d","e","f","0","1","2","3","4","5","6",
                       "7","8","9","-"}]

\* c is in the class cls, under re.IGNORECASE
InClass(c, cls) == (Lower(c) \in cls.chars) # cls.neg

\* the length of the longest run of characters of class cls starting at s[i]
RunLen(s, i, cls) ==
    LET stops == {j \in i..Len(s) : ~InClass(s[j], cls)} \cup {Len(s) + 1}
    IN  Min(stops) - i

\* '$' without re.MULTILINE: at the end of the string, and also just before
\* a newline that is the last character of the string
DollarAt(s, p) ==
    \/ p = Len(s) + 1
    \/ p = Len(s) /\ s[p] = "\n"

(***************************************************************************)
(* The regex engine on the pattern, started at position i of s: the        *)
(* position after the match the backtracking search finds first (greedy    *)
(* quantifiers give up characters one at a time), or 0 when there is no    *)
(* match at i.  idcls is the class of the last quantifier; dollar says     *)
(* whether the pattern ends with '$'.                                      *)
(***************************************************************************)
MatchEnd(s, i, idcls, dollar) ==
    IF ~StartsAtCI(s, i, PatPrefix) THEN 0
    ELSE
      LET j == i + Len(PatPrefix)
          slugMax == RunLen(s, j, SlugClass)
          \* the end reached with a slug of k characters, 0 if none
          EndFor(k) ==
              IF ~StartsAtCI(s, j + k, PatMiddle) THEN 0
              ELSE
                LET q == j + k + Len(PatMiddle)
                    idMax == RunLen(s, q, idcls)
                    ok == {m \in 1..idMax : dollar => DollarAt(s, q + m)}
                IN  IF ok = {} THEN 0 ELSE q + Max(ok)
          ks == {k \in 1..slugMax : EndFor(k) # 0}
      IN  IF ks = {} THEN 0 ELSE EndFor(Max(ks))
\* re.findall(pattern, s, re.IGNORECASE) from position p on: the scan tries
\* each position in turn and resumes after the end of a match
RECURSIVE FindAllFrom(_, _, _)
FindAllFrom(s, p, idcls) ==
    IF p > Len(s) THEN <<>>
    ELSE LET e == MatchEnd(s, p, idcls, FALSE)
         IN  IF e = 0 THEN FindAllFrom(s, p + 1, idcls)
             ELSE <<SubSeq(s, p, e - 1)>> \o FindAllFrom(s, e, idcls)

\* the list l without the repetitions of its elements
RECURSIVE Dedup(_)
Dedup(l) ==
    IF l = <<>> THEN <<>>
    ELSE LET r == Dedup(SubSeq(l, 1, Len(l) - 1))
         IN  IF \E i \in 1..Len(r) : r[i] = l[Len(l)] THEN r
             ELSE Append(r, l[Len(l)])

\* extract_wtg_links with the id class written [a-z0-9\-]
extract_wtg_links_wide(t) ==
    FindAllFrom(t, 1, [neg |-> FALSE,
                       chars |-> IdClass.chars \cup Range(LowerAlpha)])

\* extract_wtg_links returning each link once
extract_wtg_links_dedup(t) == Dedup(FindAllFrom(t, 1, IdClass))

\* utils.extract_wtg_links
extract_wtg_links(t) == FindAllFrom(t, 1, IdClass)

\* utils.validate_wtg_url: re.match of '^' + pattern + '$'
validate_wtg_url(u) == MatchEnd(u, 1, IdClass, TRUE) # 0

(***************************************************************************)
(* Inputs of the link recogniser: a text is a concatenation of pieces.     *)
(***************************************************************************)
Url1 == PatPrefix \o <<"x">> \o PatMiddle \o <<"a","1">>
Url2 == <<"H","T","T","P","S",":","/","/","W","t","g",".","c","o","m",".",
          "u","a","/","G","a","m","e","/","y","-","z","/","c","o","m","m",
          "e","n","t","/","B","-","2">>
OtherSite == <<"h","t","t","p","s",":","/","/","e","x","a","m","p","l","e",
               ".","c","o","m","/","g","a","m","e","/","x","/","c","o","m",
               "m","e","n","t","/","a","1">>
Pieces == {Url1, Url2, OtherSite, PatPrefix, <<"g">>, <<"?">>, <<"/">>,
           <<"\n">>}

PieceSeqs == UNION {[1..n -> Pieces] : n \in 0..MaxPieces}
Texts == {Flatten(ps) : ps \in PieceSeqs}
(***************************************************************************)
(* Python values.  Every value is a record with a "type" field, so that    *)
(* values of different Python types can be compared.                       *)
(***************************************************************************)
None == [type |-> "None"]
PyBool(b) == [type |-> "bool", b |-> b]
PyInt(n) == [type |-> "int", n |-> n]
PyStr(s) == [type |-> "str", s |-> s]
PyList(l) == [type |-> "list", items |-> l]
PyDict(m) == [type |-> "dict", map |-> m]
EmptyDict == PyDict([k \in {} |-> None])

\* bool(v)
Truthy(v) ==
    CASE v.type = "None" -> FALSE
      [] v.type = "bool" -> v.b
      [] v.type = "int"  -> v.n # 0
      [] v.type = "str"  -> v.s # <<>>
      [] v.type = "list" -> v.items # <<>>
      [] v.type = "dict" -> DOMAIN v.map # {}
      [] OTHER -> TRUE     \* a dataclass instance

\* a or b
PyOr(a, b) == IF Truthy(a) THEN a ELSE b

\* d.get(key) and d.get(key, default) of a dict d
DictGet(d, key, default) == IF key \in DOMAIN d.map THEN d.map[key] ELSE default

Digits == <<"0","1","2","3","4","5","6","7","8","9">>
IsDigit(c) == \E i \in 1..10 : Digits[i] = c

\* str(v): a str is itself, a small int its digit, anything else its repr
PyStrOf(v) ==
    CASE v.type = "str" -> v
      [] v.type = "int" /\ v.n \in 0..9 -> PyStr(<<Digits[v.n + 1]>>)
      [] OTHER -> PyStr(<<"<", v.type, ">">>)

\* sub occurs in s (the 'in' operator of str)
Contains(s, sub) == \E i \in 1..(Len(s) + 1) : StartsAt(s, i, sub)

\* s.split(sep) from position p on: the occurrences of sep are found from
\* the left and do not overlap
RECURSIVE SplitFrom(_, _, _)
SplitFrom(s, p, sep) ==
    LET occ == {i \in p..(Len(s) - Len(sep) + 1) : StartsAt(s, i, sep)}
    IN  IF occ = {} THEN <<SubSeq(s, p, Len(s))>>
        ELSE <<SubSeq(s, p, Min(occ) - 1)>>
             \o SplitFrom(s, Min(occ) + Len(sep), sep)

Split(s, sep) == SplitFrom(s, 1, sep)
Last(l) == l[Len(l)]

GameMarker == <<"/","g","a","m","e","/">>
CommentMarker == <<"/","c","o","m","m","e","n","t","/">>

\* CommentIdOf taking the piece after the first marker, not the last piece
CommentIdOf_first(u) ==
    IF Len(Split(u, CommentMarker)) > 1
    THEN Split(u, CommentMarker)[2] ELSE Split(u, CommentMarker)[1]

\* scrape_game_page line 51: url.split('/comment/')[-1]
CommentIdOf(u) == Last(Split(u, CommentMarker))
\* scrape_game_page line 52: url.split('/game/')[-1].split('/comment/')[0]
GameSlugOf(u) == Split(Last(Split(u, GameMarker)), CommentMarker)[1]
(***************************************************************************)
(* Literals of scraper.py.                                                 *)
(***************************************************************************)
\* _get_comment_from_api line 499
ReviewTextDefault ==
    <<"R","e","v","i","e","w"," ","t","e","x","t"," ","n","o","t"," ",
      "a","v","a","i","l","a","b","l","e">>
\* _get_comment_from_api line 504, _extract_comment_info_fallback line 368
UnknownDate ==
    <<"U","n","k","n","o","w","n"," ","D","a","t","e">>
\* _extract_comment_info_fallback lines 334, 350
UnknownUser ==
    <<"U","n","k","n","o","w","n"," ","U","s","e","r">>
\* _extract_comment_info_fallback line 336
ContentNotAvailable ==
    <<"C","o","m","m","e","n","t"," ","c","o","n","t","e","n","t"," ",
      "n","o","t"," ","a","v","a","i","l","a","b","l","e">>
\* _extract_comment_info_fallback line 387
TextNotAvailable ==
    <<"C","o","m","m","e","n","t"," ","t","e","x","t"," ","n","o","t",
      " ","a","v","a","i","l","a","b","l","e">>
\* the key of the review list in the API response, line 481
UserReviewsKey ==
    <<"u","s","e","r","_","r","e","v","i","e","w","s">>

\* dates an API response may carry
DateIso ==
    <<"2","0","2","4","-","0","6","-","1","5","T","1","2",":","3","0",
      ":","0","0","Z">>
DateIso2 ==
    <<"2","0","2","3","-","0","1","-","0","2","T","0","8",":","0","0",
      ":","0","0","Z">>
DatePlain ==
    <<"1","5",".","0","6",".","2","0","2","4">>
DateBadMonth ==
    <<"2","0","2","4","-","1","3","-","0","1","T","0","0",":","0","0",
      ":","0","0","Z">>
DateWord ==
    <<"T","o","d","a","y">>
DateOffset ==
    <<"2","0","2","4","-","0","2","-","2","9","T","2","3",":","5","9",
      ":","5","9","-","0","5",":","0","0">>

(***************************************************************************)
(* datetime.fromisoformat and strftime('%d.%m.%Y'), lines 511-512, on the  *)
(* shape YYYY-MM-DD?HH:MM:SS with an optional +HH:MM or -HH:MM offset.     *)
(***************************************************************************)
\* the number written by the two digits s[i], s[i+1], or -1
TwoDigits(s, i) ==
    IF i + 1 <= Len(s) /\ IsDigit(s[i]) /\ IsDigit(s[i + 1])
    THEN 10 * ((CHOOSE k \in 1..10 : Digits[k] = s[i]) - 1)
         + ((CHOOSE k \in 1..10 : Digits[k] = s[i + 1]) - 1)
    ELSE -1

\* str.replace('Z', '+00:00')
ReplaceZ(s) ==
    Flatten([i \in 1..Len(s) |->
               IF s[i] = "Z" THEN <<"+","0","0",":","0","0">> ELSE <<s[i]>>])

\* the days of month m of year y
DaysIn(y, m) ==
    CASE m \in {4, 6, 9, 11} -> 30
      [] m = 2 -> IF (y % 4 = 0 /\ y % 100 # 0) \/ y % 400 = 0 THEN 29 ELSE 28
      [] OTHER -> 31

\* datetime.fromisoformat(s) does not raise ValueError
IsoParses(s) ==
    /\ Len(s) \in {19, 25}
    /\ TwoDigits(s, 1) >= 0 /\ TwoDigits(s, 3) >= 0
    /\ TwoDigits(s, 1) * 100 + TwoDigits(s, 3) >= 1
    /\ s[5] = "-" /\ TwoDigits(s, 6) \in 1..12
    /\ s[8] = "-"
    /\ TwoDigits(s, 9) \in 1..DaysIn(TwoDigits(s, 1) * 100 + TwoDigits(s, 3),
                                     TwoDigits(s, 6))
    /\ TwoDigits(s, 12) \in 0..23
    /\ s[14] = ":" /\ TwoDigits(s, 15) \in 0..59
    /\ s[17] = ":" /\ TwoDigits(s, 18) \in 0..59
    /\ Len(s) = 25 =>
         /\ s[20] \in {"+", "-"}
         /\ TwoDigits(s, 21) \in 0..23
         /\ s[23] = ":" /\ TwoDigits(s, 24) \in 0..59

\* dt.strftime('%d.%m.%Y') of the parsed timestamp
StrfDate(s) ==
    SubSeq(s, 9, 10) \o <<".">> \o SubSeq(s, 6, 7) \o <<".">> \o SubSeq(s, 1, 4)

\* NormalizeDate with a failed parse giving the sentinel instead of the
\* original string
NormalizeDate_fail_unknown(date_created) ==
    IF Truthy(date_created) /\ date_created # PyStr(UnknownDate)
    THEN LET str == PyStrOf(date_created).s
         IN  IF Contains(str, <<"T">>)
             THEN IF IsoParses(ReplaceZ(str))
                  THEN PyStr(StrfDate(ReplaceZ(str)))
                  ELSE PyStr(UnknownDate)
             ELSE date_created
    ELSE date_created

\* lines 507-516: the date as normalised by the API client
NormalizeDate(date_created) ==
    IF Truthy(date_created) /\ date_created # PyStr(UnknownDate)
    THEN LET str == PyStrOf(date_created).s
         IN  IF Contains(str, <<"T">>) /\ IsoParses(ReplaceZ(str))
             THEN PyStr(StrfDate(ReplaceZ(str)))
             ELSE date_created
    ELSE date_created
(***************************************************************************)
(* models.py                                                               *)
(***************************************************************************)
GameInfo(title, score, image_url) ==
    [type |-> "GameInfo", title |-> title, score |-> score,
     image_url |-> image_url]
CommentInfo(author, date, txt, cid) ==
    [type |-> "CommentInfo", author |-> author, date |-> date, text |-> txt,
     comment_id |-> cid]
WTGData(game, comment, original_url) ==
    [type |-> "WTGData", game |-> game, comment |-> comment,
     original_url |-> original_url]

(***************************************************************************)
(* Exceptions.  requests.RequestException is the base class of the         *)
(* timeout, connection and HTTP-status errors, and of the JSON decoding    *)
(* error response.json() raises.                                           *)
(***************************************************************************)
RequestExceptions == {"Timeout", "ConnectionError", "HTTPError", "JSONDecodeError"}
OtherExceptions == {"TypeError", "AttributeError", "ValueError",
                    "SelectorSyntaxError", "ParserError"}

Return(v, lg) == [kind |-> "return", value |-> v, exc |-> "", log |-> lg]
Raise(e, lg) == [kind |-> "raise", value |-> None, exc |-> e, log |-> lg]

(***************************************************************************)
(* WTGScraper._get_comment_from_api                                        *)
(***************************************************************************)
\* ApiAuthor with a missing or empty user replaced by the fallback's sentinel
ApiAuthor_or_unknown(review_data) ==
    PyOr(DictGet(review_data, "user", None), PyStr(UnknownUser))

\* line 496: review_data.get('user', {})
ApiAuthor(review_data) == DictGet(review_data, "user", EmptyDict)

\* line 499: review_data.get('text') or 'Review text not available'
ApiText(review_data) ==
    PyOr(DictGet(review_data, "text", None), PyStr(ReviewTextDefault))

\* ApiDate with updated_at tried before created_at
ApiDate_updated_first(review_data) ==
    PyOr(PyOr(DictGet(review_data, "updated_at", None),
              DictGet(review_data, "created_at", None)),
         PyStr(UnknownDate))

\* lines 502-504: created_at or updated_at or 'Unknown Date'
ApiDate(review_data) ==
    PyOr(PyOr(DictGet(review_data, "created_at", None),
              DictGet(review_data, "updated_at", None)),
         PyStr(UnknownDate))

\* lines 495-525: the CommentInfo built from the selected review record
ApiCommentFrom(review_data, cid) ==
    IF review_data.type # "dict"
    THEN Raise("AttributeError", <<>>)     \* review_data.get, line 496
    ELSE Return(CommentInfo(ApiAuthor(review_data),
                            PyStrOf(NormalizeDate(ApiDate(review_data))),
                            PyStrOf(ApiText(review_data)), PyStr(cid)), <<>>)

\* ApiFromJson with line 481 testing only that the key is there
ApiFromJson_no_empty_check(api_data, cid) ==
    IF api_data.type # "dict" THEN Raise("TypeError", <<>>)
    ELSE IF "user_reviews" \notin DOMAIN api_data.map
    THEN Return(None, <<"api.no_data">>)
    ELSE
      LET data_content == api_data.map["user_reviews"]
      IN  IF data_content.type = "list" /\ Len(data_content.items) > 0
          THEN ApiCommentFrom(data_content.items[1], cid)
          ELSE IF data_content.type = "dict"
          THEN ApiCommentFrom(data_content, cid)
          ELSE Return(None, <<"api.unexpected_structure">>)

\* lines 481-529: the body of the try block once the JSON is decoded
ApiFromJson(api_data, cid) ==
    IF api_data.type \notin {"dict", "list", "str"}
    THEN Raise("TypeError", <<>>)          \* 'user_reviews' in api_data
    ELSE
      LET has == CASE api_data.type = "dict" ->
                        "user_reviews" \in DOMAIN api_data.map
                   [] api_data.type = "list" ->
                        \E i \in 1..Len(api_data.items) :
                            api_data.items[i] = PyStr(UserReviewsKey)
                   [] api_data.type = "str" ->
                        Contains(api_data.s, UserReviewsKey)
      IN  IF ~has THEN Return(None, <<"api.no_data">>)
          ELSE IF api_data.type # "dict"
          THEN Raise("TypeError", <<>>)    \* api_data['user_reviews']
          ELSE IF ~Truthy(api_data.map["user_reviews"])
          THEN Return(None, <<"api.no_data">>)
          ELSE
            LET data_content == api_data.map["user_reviews"]
            IN  IF data_content.type = "list" /\ Len(data_content.items) > 0
                THEN ApiCommentFrom(data_content.items[1], cid)
                ELSE IF data_content.type = "dict"
                THEN ApiCommentFrom(data_content, cid)
                ELSE Return(None, <<"api.unexpected_structure">>)

\* lines 469-476: the request, raise_for_status and response.json()
ApiTry(resp, cid) ==
    IF resp.net # "ok" THEN Raise(resp.net, <<>>)
    ELSE IF ~resp.json THEN Raise("JSONDecodeError", <<>>)
    ELSE ApiFromJson(resp.body, cid)

\* ApiExcept without the 'except Exception' clause of lines 534-536
ApiExcept_requests_only(o) ==
    IF o.kind = "return" THEN o
    ELSE IF o.exc \in RequestExceptions
    THEN Return(None, o.log \o <<"api.request_error">>)
    ELSE o

\* lines 531-536: the except clauses of _get_comment_from_api
ApiExcept(o) ==
    IF o.kind = "return" THEN o
    ELSE IF o.exc \in RequestExceptions
    THEN Return(None, o.log \o <<"api.request_error">>)
    ELSE Return(None, o.log \o <<"api.processing_error">>)

\* _get_comment_from_api(comment_id, game_slug), given the response the
\* endpoint gives to its one GET
get_comment_from_api(resp, cid) == ApiExcept(ApiTry(resp, cid))
(***************************************************************************)
(* The parsed document.  What a selector finds is a field of the document: *)
(* titles[i] is what soup.select_one(title_selectors[i]) returns, and so   *)
(* on.  An element's text is its get_text(strip=True).                     *)
(***************************************************************************)
NoElem == [type |-> "NoElem"]
Elem(txt) == [type |-> "Elem", text |-> txt]
\* an <img>: src and data_src are None or a PyStr
Img(src, data_src) == [type |-> "Img", src |-> src, data_src |-> data_src]
\* an element found by a date selector: its text and its datetime attribute
DateElem(txt, datetime) == [type |-> "Elem", text |-> txt, datetime |-> datetime]
\* a comment container: what the author, date and text selectors find in it
Container(authors, dates, texts, all_text) ==
    [type |-> "Container", authors |-> authors, dates |-> dates,
     texts |-> texts, all_text |-> all_text]

\* the first element of l that is not NoElem, or NoElem
RECURSIVE FirstFound(_)
FirstFound(l) ==
    IF l = <<>> THEN NoElem
    ELSE IF Head(l) # NoElem THEN Head(l) ELSE FirstFound(Tail(l))

IsLetter(c) == \E i \in 1..26 : UpperAlpha[i] = c \/ LowerAlpha[i] = c
Upper(c) ==
    IF \E i \in 1..26 : LowerAlpha[i] = c
    THEN UpperAlpha[CHOOSE i \in 1..26 : LowerAlpha[i] = c]
    ELSE c
LowerStr(s) == [i \in 1..Len(s) |-> Lower(s[i])]
\* str.replace('-', ' ')
HyphensToSpaces(s) == [i \in 1..Len(s) |-> IF s[i] = "-" THEN " " ELSE s[i]]
\* str.title(): a letter that follows a letter is lowered, any other raised
TitleCase(s) ==
    [i \in 1..Len(s) |->
        IF i > 1 /\ IsLetter(s[i - 1]) THEN Lower(s[i]) ELSE Upper(s[i])]

\* re.search(r'\d+', s).group(), or <<>> when there is no digit
FirstDigitRun(s) ==
    LET ds == {i \in 1..Len(s) : IsDigit(s[i])}
    IN  IF ds = {} THEN <<>>
        ELSE LET b == Min(ds)
                 stops == {j \in b..Len(s) : ~IsDigit(s[j])} \cup {Len(s) + 1}
             IN  SubSeq(s, b, Min(stops) - 1)

HttpScheme == <<"h","t","t","p">>
BadNetloc == <<"/","/","[">>
\* urljoin(base, src) raises ValueError: an unclosed '[' in the host
UrlJoinRaises(src) == Contains(src, BadNetloc) /\ ~Contains(src, <<"]">>)
\* urljoin(base, src) for the absolute src the documents carry
UrlJoin(base, src) == IF StartsAt(src, 1, HttpScheme) THEN src ELSE base \o src

\* img.get('src') or img.get('data-src')
ImgSrc(img) == PyOr(img.src, img.data_src)

ImageKeywords == {<<"g","a","m","e">>, <<"c","o","v","e","r">>,
                  <<"p","o","s","t","e","r">>}

(***************************************************************************)
(* WTGScraper._extract_game_info                                           *)
(***************************************************************************)
\* lines 225-234
GameTitle(doc, u) ==
    LET title_elem == FirstFound(doc.titles)
        title == IF title_elem = NoElem THEN <<>> ELSE title_elem.text
    IN  IF title = <<>>
        THEN TitleCase(HyphensToSpaces(GameSlugOf(u)))
        ELSE title

\* GameScore with only the first element found looked at
GameScore_first_only(elems) ==
    IF FirstFound(elems) = NoElem \/ FirstDigitRun(FirstFound(elems).text) = <<>>
    THEN <<"N","/","A">>
    ELSE FirstDigitRun(FirstFound(elems).text)

\* lines 245-255: the loop goes on when the element found has no digit
RECURSIVE GameScore(_)
GameScore(elems) ==
    IF elems = <<>> THEN <<"N","/","A">>
    ELSE IF Head(elems) # NoElem /\ FirstDigitRun(Head(elems).text) # <<>>
    THEN FirstDigitRun(Head(elems).text)
    ELSE GameScore(Tail(elems))

\* lines 267-274: the src of the first selected image that has one, or None
RECURSIVE ScopedImageSrc(_)
ScopedImageSrc(imgs) ==
    IF imgs = <<>> THEN None
    ELSE IF Head(imgs) # NoElem /\ Truthy(ImgSrc(Head(imgs)))
    THEN ImgSrc(Head(imgs))
    ELSE ScopedImageSrc(Tail(imgs))

\* lines 278-283: the src of the first image of the page with a keyword
RECURSIVE KeywordImageSrc(_)
KeywordImageSrc(imgs) ==
    IF imgs = <<>> THEN None
    ELSE IF /\ Truthy(ImgSrc(Head(imgs)))
            /\ \E kw \in ImageKeywords :
                   Contains(LowerStr(ImgSrc(Head(imgs)).s), kw)
    THEN ImgSrc(Head(imgs))
    ELSE KeywordImageSrc(Tail(imgs))

\* lines 216-292: the try block
GameInfoTry(doc, u) ==
    LET scoped == ScopedImageSrc(doc.images)
        src == IF scoped # None THEN scoped ELSE KeywordImageSrc(doc.all_imgs)
    IN  IF src # None /\ UrlJoinRaises(src.s)
        THEN Raise("ValueError", <<>>)
        ELSE Return(GameInfo(PyStr(GameTitle(doc, u)),
                             PyStr(GameScore(doc.scores)),
                             PyStr(IF src = None THEN <<>>
                                   ELSE UrlJoin(u, src.s))), <<>>)

\* lines 294-296: the except clause
GameInfoExcept(o) ==
    IF o.kind = "return" THEN o ELSE Return(None, o.log \o <<"game.error">>)

extract_game_info(doc, u) == GameInfoExcept(GameInfoTry(doc, u))
(***************************************************************************)
(* WTGScraper._extract_comment_info_fallback                               *)
(***************************************************************************)
\* The selectors of lines 312-313 put comment_id between double quotes.  A
\* CSS string cannot hold a bare double quote, line feed, carriage return or
\* form feed, nor end in a backslash: select_one then raises
\* SelectorSyntaxError.
BadSelectorChars == {"\"", "\n", "\r", "\f"}
SelectorValid(cid) ==
    /\ \A i \in 1..Len(cid) : cid[i] \notin BadSelectorChars
    /\ cid = <<>> \/ cid[Len(cid)] # "\\"

\* lines 319-329: the comment element.  by_id and by_data_id are the
\* elements carrying an id / data-id attribute, with the attribute's value;
\* containers are what '.comment', '.user-comment', '[class*="comment"]' and
\* the find_all of line 327 find.
CommentElem(doc, cid) ==
    IF doc.by_id # NoElem /\ doc.by_id.id = cid THEN doc.by_id.elem
    ELSE IF doc.by_data_id # NoElem /\ doc.by_data_id.id = cid
    THEN doc.by_data_id.elem
    ELSE FirstFound(doc.containers)

\* lines 350-355
FallbackAuthor(comment_elem) ==
    LET author_elem == FirstFound(comment_elem.authors)
    IN  IF author_elem = NoElem THEN UnknownUser ELSE author_elem.text

\* lines 368-376
FallbackDate(comment_elem) ==
    LET date_elem == FirstFound(comment_elem.dates)
    IN  IF date_elem = NoElem THEN UnknownDate
        ELSE IF Truthy(date_elem.datetime) THEN date_elem.datetime.s
        ELSE date_elem.text

\* line 392: the length a selected text must exceed to end the loop
MinTextLen == 10
\* line 399: the length the container's whole text is cut to
MaxAllTextLen == 500

\* lines 387-393: the loop over text_selectors, comment_text being the
\* value before the elements left are tried
RECURSIVE FallbackTextLoop(_, _)
FallbackTextLoop(elems, comment_text) ==
    IF elems = <<>> THEN comment_text
    ELSE IF Head(elems) = NoElem THEN FallbackTextLoop(Tail(elems), comment_text)
    ELSE IF Len(Head(elems).text) > MinTextLen THEN Head(elems).text
    ELSE FallbackTextLoop(Tail(elems), Head(elems).text)

\* lines 387-399
FallbackText(comment_elem) ==
    LET comment_text == FallbackTextLoop(comment_elem.texts, TextNotAvailable)
    IN  IF comment_text = TextNotAvailable
           /\ Len(comment_elem.all_text) > MinTextLen
        THEN SubSeq(comment_elem.all_text, 1,
                    IF Len(comment_elem.all_text) < MaxAllTextLen
                    THEN Len(comment_elem.all_text) ELSE MaxAllTextLen)
        ELSE comment_text

\* lines 310-409: the try block
FallbackTry(doc, cid) ==
    IF ~SelectorValid(cid) THEN Raise("SelectorSyntaxError", <<>>)
    ELSE
      LET comment_elem == CommentElem(doc, cid)
      IN  IF comment_elem = NoElem
          THEN Return(CommentInfo(PyStr(UnknownUser), PyStr(UnknownDate),
                                  PyStr(ContentNotAvailable), PyStr(cid)),
                      <<"fallback.no_element">>)
          ELSE Return(CommentInfo(PyStr(FallbackAuthor(comment_elem)),
                                  PyStr(FallbackDate(comment_elem)),
                                  PyStr(FallbackText(comment_elem)),
                                  PyStr(cid)), <<>>)

\* lines 411-413: the except clause
FallbackExcept(o) ==
    IF o.kind = "return" THEN o ELSE Return(None, o.log \o <<"fallback.error">>)

extract_comment_info_fallback(doc, cid) == FallbackExcept(FallbackTry(doc, cid))
(***************************************************************************)
(* Inputs of the scraper: the URL, and what the site answers.              *)
(***************************************************************************)
\* characters a comment id is made of: two that validate_wtg_url accepts
\* and a double quote, which it rejects (scrape_game_page does not validate)
IdChars == {"a", "7", "\""}
Ids == UNION {[1..n -> IdChars] : n \in 1..MaxIdLen}
Slugs == {<<"x">>, <<"l","o","s","t","-","i","n">>}
Urls ==
    {PatPrefix \o sl \o PatMiddle \o id : sl \in Slugs, id \in Ids}
    \cup {PatPrefix \o <<"x">>,
          PatPrefix \o <<"x">> \o PatMiddle \o <<"a">> \o PatMiddle \o <<"7">>}

TxtGreat == <<"G","r","e","a","t"," ","g","a","m","e","!","!">>
TxtShort == <<"N","i","c","e">>
TxtRating == <<"R","a","t","i","n","g",":"," ","8","7","/","1","0","0">>
TxtNoDigit == <<"n","/","a">>
TxtTitle == <<"L","o","s","t">>
TxtBob == <<"b","o","b">>
TxtDay == <<"1"," ","M","a","y">>
TxtAll == <<"b","o","b"," ","1"," ","M","a","y"," ","N","i","c","e">>
SrcCover == <<"h","t","t","p","s",":","/","/","c","/","C","o","v","e","r",".","j","p","g">>
SrcLogo == <<"h","t","t","p","s",":","/","/","c","/","l","o","g","o",".","p","n","g">>
SrcBad == <<"h","t","t","p",":","/","/","[">>

No5 == <<NoElem, NoElem, NoElem, NoElem, NoElem>>
No6 == <<NoElem, NoElem, NoElem, NoElem, NoElem, NoElem>>
No7 == <<NoElem, NoElem, NoElem, NoElem, NoElem, NoElem, NoElem>>
NoContainers == <<NoElem, NoElem, NoElem, NoElem>>

\* a page on which no selector finds anything
DocEmpty ==
    [type |-> "Doc", titles |-> No5, scores |-> No5, images |-> No6,
     all_imgs |-> <<>>, by_id |-> NoElem, by_data_id |-> NoElem,
     containers |-> NoContainers]

ContFull ==
    Container([No6 EXCEPT ![1] = Elem(TxtBob)],
              [No7 EXCEPT ![4] = DateElem(TxtDay, PyStr(DateIso))],
              [No5 EXCEPT ![1] = Elem(TxtGreat)], TxtAll)
ContShort ==
    Container(No6, [No7 EXCEPT ![1] = DateElem(TxtDay, None)],
              [No5 EXCEPT ![1] = Elem(TxtShort), ![5] = Elem(TxtShort)], TxtAll)
ContBare == Container(No6, No7, No5, TxtAll)

\* a page with every field, the comment carrying the id "a"
DocFull ==
    [DocEmpty EXCEPT
       !.titles = [No5 EXCEPT ![2] = Elem(TxtTitle)],
       !.scores = [No5 EXCEPT ![1] = Elem(TxtRating)],
       !.images = [No6 EXCEPT ![2] = Img(PyStr(SrcLogo), None)],
       !.by_id = [id |-> <<"a">>, elem |-> ContFull]]

\* a page whose first title element is empty and first score has no digit
DocSparse ==
    [DocEmpty EXCEPT
       !.titles = [No5 EXCEPT ![1] = Elem(<<>>), ![4] = Elem(TxtTitle)],
       !.scores = [No5 EXCEPT ![1] = Elem(TxtNoDigit), ![2] = Elem(TxtRating)],
       !.images = [No6 EXCEPT ![1] = Img(None, None)],
       !.all_imgs = <<Img(None, None), Img(PyStr(SrcLogo), None),
                      Img(None, PyStr(SrcCover))>>,
       !.by_data_id = [id |-> <<"7">>, elem |-> ContBare],
       !.containers = [NoContainers EXCEPT ![1] = ContShort]]

\* a page whose image has a src that urljoin rejects
DocBadImage ==
    [DocFull EXCEPT !.images = [No6 EXCEPT ![1] = Img(PyStr(SrcBad), None)]]

\* a page whose comment is found only by the find_all of line 327
DocSection ==
    [DocEmpty EXCEPT !.containers = [NoContainers EXCEPT ![4] = ContBare]]

Docs == {DocEmpty, DocFull, DocSparse, DocBadImage, DocSection}
NoDoc == [type |-> "NoDoc"]

NetFailures == {"Timeout", "ConnectionError", "HTTPError"}
\* what the page GET meets: no response at all, a response with a non-2xx
\* status (it has a body all the same), a body the parser rejects, a page
PageResponses ==
    {[net |-> n, parsed |-> FALSE, doc |-> NoDoc] :
        n \in {"Timeout", "ConnectionError", "ok"}}
    \cup {[net |-> n, parsed |-> TRUE, doc |-> d] :
            n \in {"HTTPError", "ok"}, d \in Docs}
NoResp == [net |-> "none"]
\* review records an API response may carry
RevFull ==
    PyDict([user |-> PyDict([name |-> PyStr(TxtBob)]), text |-> PyStr(TxtGreat),
            created_at |-> PyStr(DateIso), updated_at |-> PyStr(DateIso2)])
RevNoUser == PyDict([text |-> PyStr(<<>>), updated_at |-> PyStr(DatePlain)])
RevBadDate == PyDict([user |-> PyStr(TxtBob), created_at |-> PyStr(DateBadMonth)])
RevWordDate == PyDict([user |-> None, text |-> PyInt(7), created_at |-> PyStr(DateWord)])
RevEmptyCreated ==
    PyDict([created_at |-> PyStr(<<>>), updated_at |-> PyStr(DateIso2)])
RevNoDates == PyDict([text |-> PyStr(TxtGreat)])
RevOffset == PyDict([created_at |-> PyStr(DateOffset)])
Reviews == {RevFull, RevNoUser, RevBadDate, RevWordDate, RevEmptyCreated,
            RevNoDates, RevOffset}

\* values of the key user_reviews
ReviewContents ==
    {None, PyBool(TRUE), PyInt(0), PyInt(5), PyStr(<<>>), PyStr(TxtShort),
     PyList(<<>>), EmptyDict,
     PyList(<<None>>), PyList(<<PyStr(TxtShort)>>), PyList(<<PyList(<<>>)>>),
     PyList(<<EmptyDict>>), PyList(<<RevNoUser, RevFull>>)}
    \cup Reviews \cup {PyList(<<r>>) : r \in Reviews}

\* decoded JSON documents
ApiBodies ==
    {None, PyInt(5), PyBool(TRUE), PyStr(UserReviewsKey), PyStr(TxtShort),
     PyList(<<>>), PyList(<<PyStr(UserReviewsKey)>>), EmptyDict,
     PyDict([reviews |-> RevFull])}
    \cup {PyDict([user_reviews |-> c]) : c \in ReviewContents}

ApiResponses ==
    {[net |-> n, json |-> FALSE, body |-> None] : n \in NetFailures \cup {"ok"}}
    \cup {[net |-> "ok", json |-> TRUE, body |-> b] : b \in ApiBodies}

(***************************************************************************)
(* WTGScraper.scrape_game_page                                             *)
(***************************************************************************)
NotReturned == [type |-> "NotReturned"]
NotRun == [type |-> "NotRun"]

\* PageTry without the raise_for_status of line 62
PageTry_no_status(r) ==
    IF r.net \in {"Timeout", "ConnectionError"} THEN Raise(r.net, <<>>)
    ELSE IF ~r.parsed THEN Raise("ParserError", <<>>)
    ELSE Return(r.doc, <<>>)

\* lines 61-64: the GET, raise_for_status and the parse of the page
PageTry(r) ==
    IF r.net # "ok" THEN Raise(r.net, <<>>)
    ELSE IF ~r.parsed THEN Raise("ParserError", <<>>)
    ELSE Return(r.doc, <<>>)

\* scrape_except without the 'except Exception' clause of lines 92-94
scrape_except_requests_only(e) ==
    IF e \in RequestExceptions
    THEN [raised |-> FALSE, result |-> None, log |-> <<"scrape.network_error">>]
    ELSE [raised |-> TRUE, result |-> NotReturned, log |-> <<>>]

\* lines 89-94: the except clauses; what the call does with exception e
scrape_except(e) ==
    IF e \in RequestExceptions
    THEN [raised |-> FALSE, result |-> None, log |-> <<"scrape.network_error">>]
    ELSE [raised |-> FALSE, result |-> None, log |-> <<"scrape.unexpected_error">>]

\* NeedsFallback with the test of line 74 left out
NeedsFallback_always(ci) == TRUE

\* line 74: the API gave no comment
NeedsFallback(ci) == ~Truthy(ci)

\* Assemble without the test of lines 79-81
Assemble_unchecked(gi, ci, u) == Return(WTGData(gi, ci, PyStr(u)), <<>>)

\* lines 79-87: the value returned once both extractions have run
Assemble(gi, ci, u) ==
    IF ~Truthy(ci) THEN Return(None, <<"scrape.comment_failed">>)
    ELSE Return(WTGData(gi, ci, PyStr(u)), <<>>)

\* GameInfoFailed with the test of lines 68-70 left out
GameInfoFailed_never(gi) == FALSE

\* line 68: the game-info extraction gave nothing
GameInfoFailed(gi) == ~Truthy(gi)

\* the call ends with exception e raised inside its try block
Abort(e) ==
    /\ pc' = "done"
    /\ result' = scrape_except(e).result
    /\ raised' = scrape_except(e).raised
    /\ log' = log \o scrape_except(e).log

\* lines 48-55: the call, and the two ids split off the URL
Begin ==
    /\ pc = "idle"
    /\ \E u \in Urls :
         /\ url' = u
         /\ comment_id' = CommentIdOf(u)
         /\ game_slug' = GameSlugOf(u)
    /\ pc' = "sleep"
    /\ UNCHANGED <<page_resp, api_resp, soup, game_info, comment_info, api_ret,
                   fb_ret, result, raised, trace, log>>
    /\ UNCHANGED linkVars
    /\ UNCHANGED fmtVars
    /\ UNCHANGED <<botVars, concVars>>

\* line 58
Sleep ==
    /\ pc = "sleep"
    /\ trace' = Append(trace, "sleep")
    /\ pc' = "fetch"
    /\ UNCHANGED <<url, comment_id, game_slug, page_resp, api_resp, soup,
                   game_info, comment_info, api_ret, fb_ret, result, raised, log>>
    /\ UNCHANGED linkVars
    /\ UNCHANGED fmtVars
    /\ UNCHANGED <<botVars, concVars>>

\* lines 61-64
FetchPage ==
    /\ pc = "fetch"
    /\ \E r \in PageResponses :
         /\ page_resp' = r
         /\ IF PageTry(r).kind = "raise"
            THEN Abort(PageTry(r).exc) /\ soup' = soup
            ELSE /\ soup' = PageTry(r).value
                 /\ pc' = "extract"
                 /\ UNCHANGED <<result, raised, log>>
    /\ trace' = Append(trace, "page_get")
    /\ UNCHANGED <<url, comment_id, game_slug, api_resp, game_info,
                   comment_info, api_ret, fb_ret>>
    /\ UNCHANGED linkVars
    /\ UNCHANGED fmtVars
    /\ UNCHANGED <<botVars, concVars>>

\* lines 67-70
ExtractGameInfo ==
    /\ pc = "extract"
    /\ trace' = Append(trace, "game_info")
    /\ LET o == extract_game_info(soup, url)
       IN  IF o.kind = "raise"
           THEN Abort(o.exc) /\ game_info' = game_info
           ELSE /\ game_info' = o.value
                /\ raised' = raised
                /\ IF GameInfoFailed(o.value)
                   THEN /\ log' = log \o o.log \o <<"scrape.game_info_failed">>
                        /\ result' = None
                        /\ pc' = "done"
                   ELSE /\ log' = log \o o.log
                        /\ result' = result
                        /\ pc' = "api"
    /\ UNCHANGED <<url, comment_id, game_slug, page_resp, api_resp, soup,
                   comment_info, api_ret, fb_ret>>
    /\ UNCHANGED linkVars
    /\ UNCHANGED fmtVars
    /\ UNCHANGED <<botVars, concVars>>

\* lines 73-75
CallApi ==
    /\ pc = "api"
    /\ trace' = Append(trace, "api_get")
    /\ \E r \in ApiResponses :
         /\ api_resp' = r
         /\ LET o == get_comment_from_api(r, comment_id)
            IN  IF o.kind = "raise"
                THEN Abort(o.exc) /\ UNCHANGED <<api_ret, comment_info>>
                ELSE /\ api_ret' = o.value
                     /\ comment_info' = o.value
                     /\ UNCHANGED <<result, raised>>
                     /\ IF NeedsFallback(o.value)
                        THEN /\ log' = log \o o.log \o <<"scrape.api_failed">>
                             /\ pc' = "fallback"
                        ELSE /\ log' = log \o o.log
                             /\ pc' = "assemble"
    /\ UNCHANGED <<url, comment_id, game_slug, page_resp, soup, game_info, fb_ret>>
    /\ UNCHANGED linkVars
    /\ UNCHANGED fmtVars
    /\ UNCHANGED <<botVars, concVars>>

\* line 77
RunFallback ==
    /\ pc = "fallback"
    /\ trace' = Append(trace, "fallback")
    /\ LET o == extract_comment_info_fallback(soup, comment_id)
       IN  IF o.kind = "raise"
           THEN Abort(o.exc) /\ UNCHANGED <<fb_ret, comment_info>>
           ELSE /\ fb_ret' = o.value
                /\ comment_info' = o.value
                /\ log' = log \o o.log
                /\ pc' = "assemble"
                /\ UNCHANGED <<result, raised>>
    /\ UNCHANGED <<url, comment_id, game_slug, page_resp, api_resp, soup,
                   game_info, api_ret>>
    /\ UNCHANGED linkVars
    /\ UNCHANGED fmtVars
    /\ UNCHANGED <<botVars, concVars>>

\* lines 79-87
Finish ==
    /\ pc = "assemble"
    /\ result' = Assemble(game_info, comment_info, url).value
    /\ log' = log \o Assemble(game_info, comment_info, url).log
    /\ pc' = "done"
    /\ UNCHANGED <<url, comment_id, game_slug, page_resp, api_resp, soup,
                   game_info, comment_info, api_ret, fb_ret, raised, trace>>
    /\ UNCHANGED linkVars
    /\ UNCHANGED fmtVars
    /\ UNCHANGED <<botVars, concVars>>

InitScrape ==
    /\ pc = "idle"
    /\ url = <<>>
    /\ comment_id = <<>>
    /\ game_slug = <<>>
    /\ page_resp = NoResp
    /\ api_resp = NoResp
    /\ soup = NoDoc
    /\ game_info = NotRun
    /\ comment_info = NotRun
    /\ api_ret = NotRun
    /\ fb_ret = NotRun
    /\ result = NotReturned
    /\ raised = FALSE
    /\ trace = <<>>
    /\ log = <<>>

InitLinksIdle ==
    /\ text = <<>>
    /\ links = <<>>
    /\ cand = <<>>
    /\ valid = FALSE
    /\ lphase = "idle"

InitFormatIdle ==
    /\ wtg_data = None
    /\ sanitized = NotRun
    /\ message = NotRun
    /\ fphase = "idle"

\* the handler before a message arrives: its locals and what the chat shows
\* for the link in hand (process_wtg_link, _send_game_info)
BotStart(t) ==
    [pc |-> "received", text |-> t, wtg_links |-> <<>>, idx |-> 0, url |-> <<>>,
     placeholder |-> "none", events |-> <<>>, invoked |-> <<>>,
     wtg_data |-> None, message_text |-> NotRun, image_data |-> None]

InitBotIdle == bot = [BotStart(<<>>) EXCEPT !.pc = "idle"]

\* WTGScraper.__init__: the session with its headers is all the instance holds
SessionNew == [headers |-> "HEADERS", gets |-> 0]

InitConcIdle ==
    /\ calls = <<>>
    /\ frames = <<>>
    /\ session = SessionNew

Init == InitScrape /\ InitLinksIdle /\ InitFormatIdle /\ InitBotIdle /\ InitConcIdle

Next ==
    \/ Begin
    \/ Sleep
    \/ FetchPage
    \/ ExtractGameInfo
    \/ CallApi
    \/ RunFallback
    \/ Finish

Spec == Init /\ [][Next]_vars

(***************************************************************************)
(* The link recogniser at work: a text is given, extract_wtg_links is      *)
(* applied to it, and validate_wtg_url is applied to the text itself or to *)
(* one of the links found (app.py lines 113 and 129).                      *)
(***************************************************************************)
ExtractLinks ==
    /\ lphase = "input"
    /\ links' = extract_wtg_links(text)
    /\ lphase' = "extracted"
    /\ UNCHANGED <<text, cand, valid>>
    /\ UNCHANGED scrapeVars
    /\ UNCHANGED fmtVars
    /\ UNCHANGED <<botVars, concVars>>

ValidateUrl ==
    /\ lphase = "extracted"
    /\ \E u \in {text} \cup Range(links) :
         /\ cand' = u
         /\ valid' = validate_wtg_url(u)
    /\ lphase' = "validated"
    /\ UNCHANGED <<text, links>>
    /\ UNCHANGED scrapeVars
    /\ UNCHANGED fmtVars
    /\ UNCHANGED <<botVars, concVars>>

InitLinks ==
    /\ text \in Texts
    /\ links = <<>>
    /\ cand = <<>>
    /\ valid = FALSE
    /\ lphase = "input"
    /\ InitScrape
    /\ InitFormatIdle
    /\ InitBotIdle
    /\ InitConcIdle

NextLinks ==
    \/ ExtractLinks
    \/ ValidateUrl

SpecLinks == InitLinks /\ [][NextLinks]_vars

(***************************************************************************)
(* What the pattern means, stated on whole strings without the engine.     *)
(***************************************************************************)
\* t[p..e-1] is a comment URL: the prefix, a slug without '/', the middle,
\* and an id of hex digits and hyphens, with nothing left over
IsUrlAt(t, p, e) ==
    /\ e <= Len(t) + 1
    /\ e - p >= Len(PatPrefix) + Len(PatMiddle) + 2
    /\ InClass(t[e - 1], IdClass)
    /\ StartsAtCI(t, p, PatPrefix)
    /\ \E a \in (p + Len(PatPrefix) + 1)..(e - Len(PatMiddle) - 1) :
         /\ StartsAtCI(t, a, PatMiddle)
         /\ \A k \in (p + Len(PatPrefix))..(a - 1) : t[k] # "/"
         /\ \A k \in (a + Len(PatMiddle))..(e - 1) : InClass(t[k], IdClass)

IsWholeUrl(u) == IsUrlAt(u, 1, Len(u) + 1)

\* the matches of the pattern in t from position p on, from the left, each
\* as long as it can be, none overlapping the one before
RECURSIVE LeftmostMatches(_, _)
LeftmostMatches(t, p) ==
    LET starts == {b \in p..Len(t) :
                      /\ StartsAtCI(t, b, PatPrefix)
                      /\ \E e \in b..(Len(t) + 1) : IsUrlAt(t, b, e)}
    IN  IF starts = {} THEN <<>>
        ELSE LET b == Min(starts)
                 e == Max({x \in b..(Len(t) + 1) : IsUrlAt(t, b, x)})
             IN  <<SubSeq(t, b, e - 1)>> \o LeftmostMatches(t, e)

(***************************************************************************)
(* Properties of the link recogniser, checked under SpecLinks.             *)
(***************************************************************************)
\* C8: every string extract_wtg_links returns satisfies validate_wtg_url:
\* whenever validate_wtg_url has been applied to one of the links extracted
\* from the text, it has answered true.
C8_ExtractedLinksValidate ==
    (lphase = "validated" /\ cand \in Range(links)) => valid

\* C8 witness: a text with two links, one of which has been validated
C8_Witness ==
    /\ lphase = "validated"
    /\ Len(links) >= 2
    /\ cand \in Range(links)
    /\ cand # text
    /\ valid

\* C9 (as claimed): validate_wtg_url answers true only when the entire
\* string, with no character left over, is a comment URL.
C9_ValidOnlyWholeUrl ==
    (lphase = "validated" /\ valid) => IsWholeUrl(cand)

\* C10: extract_wtg_links returns the matches of the pattern from the left,
\* none overlapping another, in the order they occur and with duplicates
\* kept; each one is a comment URL of the site, and a text without a match
\* gives the empty list.
C10_LinksAreLeftmostMatches ==
    lphase = "extracted" =>
        /\ links = LeftmostMatches(text, 1)
        /\ \A i \in 1..Len(links) : StartsAtCI(links[i], 1, PatPrefix)
        /\ (\A b \in 1..Len(text) :
                StartsAtCI(text, b, PatPrefix) =>
                    \A e \in b..(Len(text) + 1) : ~IsUrlAt(text, b, e))
             => links = <<>>

\* C10 witness: the same link found twice, after a URL of another site
C10_Witness ==
    /\ lphase = "extracted"
    /\ Len(text) > Len(OtherSite)
    /\ SubSeq(text, 1, Len(OtherSite)) = OtherSite
    /\ Len(links) = 2
    /\ links[1] = links[2]

(***************************************************************************)
(* Properties of scrape_game_page, checked under Spec.                     *)
(***************************************************************************)
\* the page GET met a network failure
PageFetchFailed == page_resp # NoResp /\ page_resp.net \in NetFailures

\* the API GET failed: no response, a non-2xx status, a body that is not
\* JSON, or JSON of an unexpected type (no mapping at the top, or a review
\* list whose first element is no mapping)
ApiFailed ==
    /\ api_resp # NoResp
    /\ \/ api_resp.net # "ok"
       \/ ~api_resp.json
       \/ api_resp.body.type # "dict"
       \/ /\ "user_reviews" \in DOMAIN api_resp.body.map
          /\ api_resp.body.map["user_reviews"].type = "list"
          /\ api_resp.body.map["user_reviews"].items # <<>>
          /\ api_resp.body.map["user_reviews"].items[1].type # "dict"

\* the decoded JSON has the shape the API client accepts: a mapping whose
\* key user_reviews holds a non-empty list or a non-empty mapping
GoodShape(body) ==
    /\ body.type = "dict"
    /\ "user_reviews" \in DOMAIN body.map
    /\ \/ /\ body.map["user_reviews"].type = "list"
          /\ body.map["user_reviews"].items # <<>>
       \/ /\ body.map["user_reviews"].type = "dict"
          /\ DOMAIN body.map["user_reviews"].map # {}

\* the review record of a body of good shape
ReviewOf(body) ==
    IF body.map["user_reviews"].type = "list"
    THEN body.map["user_reviews"].items[1]
    ELSE body.map["user_reviews"]

\* C1: scrape_game_page never raises to its caller: whatever the URL and
\* the outcome of the page fetch, of the extractions and of the API call, no
\* exception leaves the call, a call that has not returned stands at one
\* of its steps, and a call that has ended has returned None or a WTGData.
C1_NeverRaises ==
    /\ ~raised
    /\ pc \in {"idle", "sleep", "fetch", "extract", "api", "fallback",
               "assemble", "done"}
    /\ pc = "done" => (result = None \/ result.type = "WTGData")
    /\ pc # "done" => result = NotReturned

\* C1 witness: the parser rejected the page and the call returned None
C1_Witness ==
    /\ pc = "done"
    /\ page_resp.net = "ok"
    /\ ~page_resp.parsed
    /\ result = None
    /\ log = <<"scrape.unexpected_error">>

\* C2: a WTGData is never partially populated: one is returned only when
\* _extract_game_info gave a GameInfo and the API client or the fallback
\* gave a CommentInfo, and it holds exactly these; when the game info is
\* missing or neither comment path gave a record, the call returns None.
C2_NeverPartial ==
    /\ result # NotReturned /\ result # None =>
         /\ result.type = "WTGData"
         /\ game_info.type = "GameInfo"
         /\ result.game = game_info
         /\ result.comment.type = "CommentInfo"
         /\ result.comment = api_ret \/ result.comment = fb_ret
         /\ result.original_url = PyStr(url)
    /\ (pc = "done" /\ (game_info.type # "GameInfo"
                        \/ (api_ret.type # "CommentInfo"
                            /\ fb_ret.type # "CommentInfo"))) => result = None

\* C2 witness: the game info was extracted, the API and the fallback both
\* gave nothing, and the call returned None
C2_Witness ==
    /\ pc = "done"
    /\ game_info.type = "GameInfo"
    /\ api_ret = None
    /\ fb_ret = None
    /\ result = None

\* C3: when the page fetch fails with a network exception, the call returns
\* None, logs exactly one network-failure event, makes no call to the
\* comment API and runs neither the game-info extractor nor the fallback.
C3_FetchFailureStopsRun ==
    PageFetchFailed =>
        /\ pc = "done"
        /\ result = None
        /\ Count(log, "scrape.network_error") + Count(log, "api.request_error") = 1
        /\ Len(log) = 1
        /\ Count(trace, "api_get") = 0
        /\ Count(trace, "game_info") = 0
        /\ Count(trace, "fallback") = 0
        /\ api_resp = NoResp

\* C3 witness: the site answered the page GET with a non-2xx status
C3_Witness ==
    /\ pc = "done"
    /\ page_resp.net = "HTTPError"
    /\ result = None

\* C4: in one run the page is fetched at most once and the API is called at
\* most once; the fallback runs if and only if the API client returned
\* null, and it runs on the document parsed from the one page fetch.
C4_OneFetchOneApiCall ==
    /\ Count(trace, "page_get") <= 1
    /\ Count(trace, "api_get") <= 1
    /\ Count(trace, "fallback") <= 1
    /\ Count(trace, "fallback") = 1 =>
         /\ api_ret = None
         /\ Count(trace, "page_get") = 1
         /\ soup = page_resp.doc
    /\ (pc \in {"assemble", "done"} /\ api_ret = None) =>
         Count(trace, "fallback") = 1
    /\ (fb_ret # NotRun) =>
         fb_ret = extract_comment_info_fallback(page_resp.doc, comment_id).value

\* C4 witness: the API returned null and the fallback gave the comment
C4_Witness ==
    /\ pc = "done"
    /\ api_ret = None
    /\ trace = <<"sleep", "page_get", "game_info", "api_get", "fallback">>
    /\ result # None
    /\ result.comment = fb_ret

\* C5: any failure inside the API client makes it return null without an
\* exception reaching scrape_game_page, which then runs the fallback: an API
\* failure alone never makes the call return None when the fallback gives a
\* record.
C5_ApiFailureFallsBack ==
    ApiFailed =>
        /\ api_ret = None
        /\ pc \in {"fallback", "assemble", "done"}
        /\ Count(log, "scrape.unexpected_error") = 0
        /\ Count(log, "scrape.network_error") = 0
        /\ pc # "fallback" => Count(trace, "fallback") = 1
        /\ (pc = "done" /\ fb_ret.type = "CommentInfo") =>
             /\ result # None
             /\ result.comment = fb_ret

\* C5 witness: the API answered with JSON that is no mapping, and the call
\* returned the fallback's record
C5_Witness ==
    /\ pc = "done"
    /\ api_resp.net = "ok"
    /\ api_resp.json
    /\ api_resp.body.type = "int"
    /\ result # None
    /\ result.comment = fb_ret

\* C6: the API client returns a CommentInfo only when the decoded JSON has
\* the key user_reviews holding a non-empty list, whose element 0 is the
\* review record, or a non-empty mapping, which is the review record; for
\* every other shape it returns null and raises nothing.
C6_ApiShape ==
    api_resp # NoResp =>
        /\ api_ret.type = "CommentInfo" =>
             /\ api_resp.net = "ok" /\ api_resp.json
             /\ GoodShape(api_resp.body)
             /\ api_ret = ApiCommentFrom(ReviewOf(api_resp.body), comment_id).value
        /\ (api_resp.net = "ok" /\ api_resp.json /\ ~GoodShape(api_resp.body)) =>
             /\ api_ret = None
             /\ ~raised
             /\ pc \in {"fallback", "assemble", "done"}
             /\ Count(log, "scrape.unexpected_error") = 0

\* C6 witness: a list of two reviews, the first of which became the comment
C6_Witness ==
    /\ api_resp # NoResp
    /\ api_resp.net = "ok" /\ api_resp.json
    /\ api_resp.body = PyDict([user_reviews |-> PyList(<<RevNoUser, RevFull>>)])
    /\ api_ret.type = "CommentInfo"
    /\ api_ret.text = PyStr(ReviewTextDefault)

SegmentsAfterMarker(u) ==
    {SubSeq(u, p + Len(CommentMarker), Len(u)) :
        p \in {q \in 1..Len(u) : StartsAt(u, q, CommentMarker)}}

\* the URL with two '/comment/' markers
TwoMarkerUrl ==
    PatPrefix \o <<"x">> \o PatMiddle \o <<"a">> \o PatMiddle \o <<"7">>

C12_AuthorNeverDefaulted ==
    api_ret.type = "CommentInfo" =>
        api_ret.author = DictGet(ReviewOf(api_resp.body), "user", None)

\* C12 (amended): the author is the value of the key 'user' exactly as
\* provided when the review record has the key (null included), and the
\* empty mapping when the record has no such key.
C12_AuthorAsProvidedOrEmpty ==
    api_ret.type = "CommentInfo" =>
        /\ "user" \in DOMAIN ReviewOf(api_resp.body).map =>
             api_ret.author = ReviewOf(api_resp.body).map["user"]
        /\ "user" \notin DOMAIN ReviewOf(api_resp.body).map =>
             api_ret.author = EmptyDict

\* C12 witness: a review record without the key 'user'
C12_Witness ==
    /\ api_ret.type = "CommentInfo"
    /\ ReviewOf(api_resp.body) = RevNoUser
    /\ api_ret.author = EmptyDict

\* C13: the date of a CommentInfo built by the API client comes from
\* created_at when it is present and not empty, else from updated_at when it
\* is present and not empty, else it is "Unknown Date"; updated_at is never
\* used when created_at has a value.
C13_DatePriority ==
    api_ret.type = "CommentInfo" =>
        LET r == ReviewOf(api_resp.body).map
            has(k) == k \in DOMAIN r /\ Truthy(r[k])
            chosen == IF has("created_at") THEN r["created_at"]
                      ELSE IF has("updated_at") THEN r["updated_at"]
                      ELSE PyStr(UnknownDate)
        IN  api_ret.date = PyStrOf(NormalizeDate(chosen))

\* C13 witness: created_at is the empty string, so updated_at gave the date
C13_Witness ==
    /\ api_ret.type = "CommentInfo"
    /\ ReviewOf(api_resp.body) = RevEmptyCreated
    /\ api_ret.date = PyStr(<<"0","2",".","0","1",".","2","0","2","3">>)

\* C14: the chosen date, when it is not "Unknown Date" and holds a 'T', is
\* parsed as ISO-8601 with 'Z' read as +00:00 and becomes DD.MM.YYYY
\* ("2024-06-15T12:30:00Z" gives "15.06.2024"); a date without 'T', the
\* sentinel and a date whose parse fails stay as they are, and a failed
\* parse never makes the API client return null or raise.
C14_DateNormalized ==
    /\ api_ret.type = "CommentInfo" =>
         LET chosen == ApiDate(ReviewOf(api_resp.body))
             d == PyStrOf(chosen).s
             iso == ReplaceZ(d)
         IN  /\ chosen = PyStr(UnknownDate) => api_ret.date = PyStr(UnknownDate)
             /\ ~Contains(d, <<"T">>) => api_ret.date = PyStr(d)
             /\ (Contains(d, <<"T">>) /\ ~IsoParses(iso)) => api_ret.date = PyStr(d)
             /\ (Contains(d, <<"T">>) /\ IsoParses(iso)) =>
                  /\ Len(api_ret.date.s) = 10
                  /\ SubSeq(api_ret.date.s, 1, 2) = SubSeq(iso, 9, 10)
                  /\ api_ret.date.s[3] = "."
                  /\ SubSeq(api_ret.date.s, 4, 5) = SubSeq(iso, 6, 7)
                  /\ api_ret.date.s[6] = "."
                  /\ SubSeq(api_ret.date.s, 7, 10) = SubSeq(iso, 1, 4)
             /\ chosen = PyStr(DateIso) => api_ret.date = PyStr(DatePlain)
    /\ (/\ api_resp # NoResp
        /\ api_resp.net = "ok" /\ api_resp.json
        /\ GoodShape(api_resp.body)
        /\ ReviewOf(api_resp.body).type = "dict") =>
         /\ api_ret.type = "CommentInfo"
         /\ ~raised
         /\ Count(log, "api.processing_error") = 0

\* C14 witness: a created_at with a month 13 was kept as it is
C14_Witness ==
    /\ api_ret.type = "CommentInfo"
    /\ ReviewOf(api_resp.body) = RevBadDate
    /\ api_ret.date = PyStr(DateBadMonth)

\* the title derived from the URL, line 234
SlugTitle(u) == TitleCase(HyphensToSpaces(GameSlugOf(u)))

\* C15 (as claimed): the title is the text of the first title selector, in
\* the listed order, whose element has a text that is not empty; an element
\* with an empty text does not end the search; the title comes from the
\* URL's game slug only when no selector gives a text.
C15_FirstNonEmptyTitleWins ==
    game_info.type = "GameInfo" =>
        LET nonempty == {i \in 1..Len(soup.titles) :
                            /\ soup.titles[i] # NoElem
                            /\ soup.titles[i].text # <<>>}
        IN  game_info.title =
              PyStr(IF nonempty = {} THEN SlugTitle(url)
                    ELSE soup.titles[Min(nonempty)].text)

\* r is the first run of decimal digits of t
IsFirstDigitRun(t, r) ==
    \E b \in 1..Len(t) :
        /\ \A i \in 1..(b - 1) : ~IsDigit(t[i])
        /\ r # <<>>
        /\ b + Len(r) - 1 <= Len(t)
        /\ r = SubSeq(t, b, b + Len(r) - 1)
        /\ \A i \in 1..Len(r) : IsDigit(r[i])
        /\ b + Len(r) <= Len(t) => ~IsDigit(t[b + Len(r)])

NoScore == <<"N","/","A">>

\* C16 (as claimed): the first element the score selectors find, in their
\* order, decides: the score is the first run of digits of its text, and
\* "N/A" when no selector finds an element or that first element's text has
\* no digit.
C16_FirstScoreElementDecides ==
    game_info.type = "GameInfo" =>
        LET found == {i \in 1..Len(soup.scores) : soup.scores[i] # NoElem}
        IN  IF found = {} THEN game_info.score = PyStr(NoScore)
            ELSE IF \E j \in 1..Len(soup.scores[Min(found)].text) :
                        IsDigit(soup.scores[Min(found)].text[j])
            THEN IsFirstDigitRun(soup.scores[Min(found)].text, game_info.score.s)
            ELSE game_info.score = PyStr(NoScore)

\* C16 (amended): the first element found, in selector order, whose text
\* holds a digit decides: the score is the first run of digits of its text
\* ("Rating: 87/100" gives "87"); it is "N/A" when no selector finds an
\* element whose text holds a digit.
C16_FirstScoreWithDigits ==
    game_info.type = "GameInfo" =>
        LET digit == {i \in 1..Len(soup.scores) :
                         /\ soup.scores[i] # NoElem
                         /\ \E j \in 1..Len(soup.scores[i].text) :
                                IsDigit(soup.scores[i].text[j])}
        IN  /\ digit = {} => game_info.score = PyStr(NoScore)
            /\ digit # {} =>
                 IsFirstDigitRun(soup.scores[Min(digit)].text, game_info.score.s)
            /\ (digit # {} /\ soup.scores[Min(digit)].text = TxtRating) =>
                 game_info.score = PyStr(<<"8","7">>)

\* C16 witness: the first score element has no digit, the second gave 87
C16_Witness ==
    /\ game_info.type = "GameInfo"
    /\ soup = DocSparse
    /\ soup.scores[1] = Elem(TxtNoDigit)
    /\ game_info.score = PyStr(<<"8","7">>)

\* C17 (as claimed): the fallback's text is that of the first text selector,
\* in order, whose element has more than 10 characters; when no selector
\* gives one, also when the selectors find only short texts, it is the
\* container's whole text cut to 500 characters.
C17_TextLongerThanTenOrAllText ==
    (fb_ret.type = "CommentInfo" /\ CommentElem(soup, comment_id) # NoElem) =>
        LET ce == CommentElem(soup, comment_id)
            long == {i \in 1..Len(ce.texts) :
                        /\ ce.texts[i] # NoElem
                        /\ Len(ce.texts[i].text) > 10}
        IN  fb_ret.text =
              PyStr(IF long # {} THEN ce.texts[Min(long)].text
                    ELSE SubSeq(ce.all_text, 1, Min({500, Len(ce.all_text)})))

\* C20: the steps of a run come in one order, sleep, page fetch, game-info
\* extraction, API call, fallback, each only after the ones before it; when
\* the game-info extraction gives nothing the run ends with None and neither
\* the comment API nor the fallback is called.
C20_StepsInOrder ==
    /\ \E n \in 0..5 :
         trace = SubSeq(<<"sleep", "page_get", "game_info", "api_get",
                          "fallback">>, 1, n)
    /\ game_info = None =>
         /\ pc = "done"
         /\ result = None
         /\ Count(trace, "api_get") = 0
         /\ Count(trace, "fallback") = 0
         /\ api_resp = NoResp
         /\ api_ret = NotRun
         /\ fb_ret = NotRun
         /\ log = <<"game.error", "scrape.game_info_failed">>

\* C20 witness: urljoin rejected the image address, the extraction gave
\* nothing and the run ended after three steps
C20_Witness ==
    /\ pc = "done"
    /\ game_info = None
    /\ soup = DocBadImage
    /\ trace = <<"sleep", "page_get", "game_info">>
    /\ result = None

(***************************************************************************)
(* utils.py: the sanitizers and the message formatters.                    *)
(***************************************************************************)
\* the concatenation of the strings of the list ss
RECURSIVE Join(_)
Join(ss) ==
    IF Len(ss) = 0 THEN <<>>
    ELSE IF Len(ss) = 1 THEN ss[1]
    ELSE Join(SubSeq(ss, 1, Len(ss) \div 2))
         \o Join(SubSeq(ss, Len(ss) \div 2 + 1, Len(ss)))

\* the characters \s matches and str.strip() removes
Whitespace == {" ", "\t", "\n", "\r", "\f"}

\* text.strip()
Strip(s) ==
    LET ns == {i \in 1..Len(s) : s[i] \notin Whitespace}
    IN  IF ns = {} THEN <<>> ELSE SubSeq(s, Min(ns), Max(ns))

\* re.sub(r'\s+', ' ', s): every run of whitespace becomes one space
CollapseSpaces(s) ==
    Join([i \in 1..Len(s) |->
            IF s[i] \notin Whitespace THEN <<s[i]>>
            ELSE IF i > 1 /\ s[i - 1] \in Whitespace THEN <<>>
            ELSE <<" ">>])

\* s.replace(c, r) for a one-character c
ReplaceChar(s, c, r) ==
    Join([i \in 1..Len(s) |-> IF s[i] = c THEN r ELSE <<s[i]>>])

\* sanitize_text lines 47-50; "U+0060" stands for the grave accent
SpecialChars ==
    <<"\\", "_", "*", "[", "]", "(", ")", "~", "U+0060", ">", "#", "+", "-", "=",
      "|", "{", "}", ".", "!">>

\* sanitize_text lines 56-57: the replace of each character of chars in turn
RECURSIVE EscapeEach(_, _)
EscapeEach(s, chars) ==
    IF chars = <<>> THEN s
    ELSE EscapeEach(ReplaceChar(s, Head(chars), <<"\\", Head(chars)>>),
                    Tail(chars))

\* sanitize_text(text): a falsy value gives "", a value that is no str has
\* no strip method
sanitize_text(t) ==
    IF ~Truthy(t) THEN Return(PyStr(<<>>), <<>>)
    ELSE IF t.type # "str" THEN Raise("AttributeError", <<>>)
    ELSE Return(PyStr(EscapeEach(
                    ReplaceChar(CollapseSpaces(Strip(t.s)), "\\", <<"\\", "\\">>),
                    Tail(SpecialChars))), <<>>)

AmpEntity == <<"&","a","m","p",";">>
LtEntity == <<"&","l","t",";">>
GtEntity == <<"&","g","t",";">>

\* sanitize_html with the ampersand replaced last instead of first
sanitize_html_amp_last(t) ==
    IF ~Truthy(t) THEN Return(PyStr(<<>>), <<>>)
    ELSE IF t.type # "str" THEN Raise("AttributeError", <<>>)
    ELSE Return(PyStr(ReplaceChar(ReplaceChar(ReplaceChar(
                    CollapseSpaces(Strip(t.s)),
                    "<", LtEntity), ">", GtEntity), "&", AmpEntity)), <<>>)

\* sanitize_html(text), lines 74-85
sanitize_html(t) ==
    IF ~Truthy(t) THEN Return(PyStr(<<>>), <<>>)
    ELSE IF t.type # "str" THEN Raise("AttributeError", <<>>)
    ELSE Return(PyStr(ReplaceChar(ReplaceChar(ReplaceChar(
                    CollapseSpaces(Strip(t.s)),
                    "&", AmpEntity), "<", LtEntity), ">", GtEntity)), <<>>)

\* format_game_message line 109
MdLimit == 300
\* format_game_message line 110
MdKeep == 297
MdEllipsis == <<"\\", ".", "\\", ".", "\\", ".">>
\* format_game_message_html line 150
HtmlLimit == 1000
\* format_game_message_html line 151
HtmlKeep == 297
HtmlEllipsis == <<".", ".", ".">>

\* s[:n]
Take(s, n) == IF Len(s) <= n THEN s ELSE SubSeq(s, 1, n)

\* lines 109-110: the comment text as the MarkdownV2 message carries it
MdCommentText(st) ==
    IF Len(st) > MdLimit THEN Take(st, MdKeep) \o MdEllipsis ELSE st

\* HtmlCommentText with the limit of the MarkdownV2 formatter
HtmlCommentText_md_limit(st) ==
    IF Len(st) > MdLimit THEN Take(st, HtmlKeep) \o HtmlEllipsis ELSE st

\* lines 150-151: the comment text as the HTML message carries it
HtmlCommentText(st) ==
    IF Len(st) > HtmlLimit THEN Take(st, HtmlKeep) \o HtmlEllipsis ELSE st

\* the pieces of the two templates, lines 112-118 and 153-159
MdTitleOpen ==
    <<"U+1F3AE"," ","*">>
MdScoreOpen ==
    <<"*","\n","U+2B50"," ","S","c","o","r","e",":"," ">>
ScoreClose ==
    <<"/","1","0","0","\n","U+1F464"," ","C","o","m","m","e","n","t"," ",
      "b","y",":"," ">>
MdDateOpen ==
    <<" ","\\","-"," ">>
TextOpen ==
    <<"\n","\n","U+1F4AC"," ">>
MdLinkOpen ==
    <<"\n","\n","U+1F517"," ","[","V","i","e","w"," ","o","r","i","g","i",
      "n","a","l"," ","p","o","s","t","]","(">>
MdLinkClose ==
    <<")">>
HtmlTitleOpen ==
    <<"U+1F3AE"," ","<","b",">">>
HtmlScoreOpen ==
    <<"<","/","b",">","\n","U+2B50"," ","S","c","o","r","e",":"," ">>
HtmlDateOpen ==
    <<" ","-"," ">>
HtmlLinkOpen ==
    <<"\n","\n","U+1F517"," ","<","a"," ","h","r","e","f","=","\"">>
HtmlLinkClose ==
    <<"\"",">","V","i","e","w"," ","o","r","i","g","i","n","a","l"," ","p",
      "o","s","t","<","/","a",">">>
\* the first outcome of os that is a raise, or a return when there is none
RECURSIVE FirstRaise(_)
FirstRaise(os) ==
    IF os = <<>> THEN Return(None, <<>>)
    ELSE IF Head(os).kind = "raise" THEN Head(os)
    ELSE FirstRaise(Tail(os))

\* format_game_message(wtg_data), lines 98-120
format_game_message(d) ==
    LET title == sanitize_text(d.game.title)
        score == sanitize_text(d.game.score)
        author == sanitize_text(d.comment.author)
        date == sanitize_text(d.comment.date)
        comment_text == sanitize_text(d.comment.text)
        bad == FirstRaise(<<title, score, author, date, comment_text>>)
    IN  IF bad.kind = "raise" THEN bad
        ELSE Return(PyStr(
               MdTitleOpen \o title.value.s \o MdScoreOpen \o score.value.s
               \o ScoreClose \o author.value.s \o MdDateOpen \o date.value.s
               \o TextOpen \o MdCommentText(comment_text.value.s)
               \o MdLinkOpen \o PyStrOf(d.original_url).s \o MdLinkClose), <<>>)

\* format_game_message_html(wtg_data), lines 133-161
format_game_message_html(d) ==
    LET title == sanitize_html(d.game.title)
        score == sanitize_html(d.game.score)
        author == sanitize_html(d.comment.author)
        date == sanitize_html(d.comment.date)
        comment_text == sanitize_html(d.comment.text)
        bad == FirstRaise(<<title, score, author, date, comment_text>>)
    IN  IF bad.kind = "raise" THEN bad
        ELSE Return(PyStr(
               HtmlTitleOpen \o title.value.s \o HtmlScoreOpen \o score.value.s
               \o ScoreClose \o author.value.s \o HtmlDateOpen \o date.value.s
               \o TextOpen \o HtmlCommentText(comment_text.value.s)
               \o HtmlLinkOpen \o PyStrOf(d.original_url).s \o HtmlLinkClose), <<>>)

(***************************************************************************)
(* Inputs of the formatters: a WTGData whose comment text varies.          *)
(***************************************************************************)
FmtAlphabet == {"&", "<", ">", "a", " ", ".", "\\"}
ShortTexts == UNION {[1..n -> FmtAlphabet] : n \in 0..MaxTextLen}
ExampleHtml == <<"<","b",">","&","<","/","b",">">>
\* n times the character c
Fill(c, n) == [i \in 1..n |-> c]
\* lengths on both sides of the two limits, for texts that sanitizing leaves
\* as long as they are, doubles ('.') or makes five times as long ('&')
LongLens ==
    {MdLimit \div 2, MdLimit \div 2 + 1, HtmlLimit \div 5, HtmlLimit \div 5 + 1,
     MdKeep, MdLimit - 1, MdLimit, MdLimit + 1,
     HtmlLimit - 1, HtmlLimit, HtmlLimit + 1}
LongTexts == {Fill(c, n) : c \in {"a", ".", "&"}, n \in LongLens}
FmtTexts == ShortTexts \cup LongTexts \cup {ExampleHtml, LtEntity, TxtGreat}
\* the authors a CommentInfo may hold: a name, or what the API client keeps
FmtAuthors ==
    {PyStr(TxtBob), EmptyDict, None, PyDict([name |-> PyStr(TxtBob)])}
FmtData(author, txt) ==
    WTGData(GameInfo(PyStr(TxtTitle), PyStr(<<"8","7">>), PyStr(<<>>)),
            CommentInfo(author, PyStr(DatePlain), txt, PyStr(<<"a","7">>)),
            PyStr(Url1))
FormatInputs ==
    {FmtData(PyStr(TxtBob), PyStr(t)) : t \in FmtTexts}
    \cup {FmtData(a, PyStr(TxtGreat)) : a \in FmtAuthors}

\* a call sanitize_text(comment.text), line 105
SanitizeText ==
    /\ fphase = "input"
    /\ sanitized' = sanitize_text(wtg_data.comment.text)
    /\ fphase' = "sanitize_text"
    /\ UNCHANGED <<wtg_data, message>>
    /\ UNCHANGED <<linkVars, scrapeVars, botVars, concVars>>

\* a call sanitize_html(comment.text), line 143
SanitizeHtml ==
    /\ fphase = "input"
    /\ sanitized' = sanitize_html(wtg_data.comment.text)
    /\ fphase' = "sanitize_html"
    /\ UNCHANGED <<wtg_data, message>>
    /\ UNCHANGED <<linkVars, scrapeVars, botVars, concVars>>

\* a call format_game_message(wtg_data)
FormatMarkdown ==
    /\ fphase = "input"
    /\ message' = format_game_message(wtg_data)
    /\ fphase' = "format_game_message"
    /\ UNCHANGED <<wtg_data, sanitized>>
    /\ UNCHANGED <<linkVars, scrapeVars, botVars, concVars>>

\* a call format_game_message_html(wtg_data)
FormatHtml ==
    /\ fphase = "input"
    /\ message' = format_game_message_html(wtg_data)
    /\ fphase' = "format_game_message_html"
    /\ UNCHANGED <<wtg_data, sanitized>>
    /\ UNCHANGED <<linkVars, scrapeVars, botVars, concVars>>

InitFormat ==
    /\ wtg_data \in FormatInputs
    /\ sanitized = NotRun
    /\ message = NotRun
    /\ fphase = "input"
    /\ InitScrape
    /\ InitLinksIdle
    /\ InitBotIdle
    /\ InitConcIdle

NextFormat ==
    \/ SanitizeText
    \/ SanitizeHtml
    \/ FormatMarkdown
    \/ FormatHtml

SpecFormat == InitFormat /\ [][NextFormat]_vars

(***************************************************************************)
(* Properties of the sanitizers and the formatters, checked under          *)
(* SpecFormat.                                                             *)
(***************************************************************************)
\* the comment text a formatted message carries: what stands between the
\* speech-balloon line's opening and the blank line before the link line
CommentTextIn(msg) ==
    SubSeq(msg, (CHOOSE i \in 1..Len(msg) : msg[i] = "U+1F4AC") + 2,
                (CHOOSE i \in 1..Len(msg) : msg[i] = "U+1F517") - 3)

\* C18: in the MarkdownV2 message a sanitized comment text of more than 300
\* characters is cut to its first 297 characters followed by the escaped
\* ellipsis \.\.\. and a shorter one is carried as it is; in the HTML message
\* only a sanitized text of more than 1000 characters is cut, to its first
\* 297 characters followed by ..., so that a text of 301 to 1000 characters
\* is carried in full.
C18_TruncationLimits ==
    /\ (fphase = "format_game_message" /\ message.kind = "return") =>
         LET st == sanitize_text(wtg_data.comment.text).value.s
         IN  CommentTextIn(message.value.s) =
               IF Len(st) > 300
               THEN SubSeq(st, 1, 297) \o <<"\\", ".", "\\", ".", "\\", ".">>
               ELSE st
    /\ (fphase = "format_game_message_html" /\ message.kind = "return") =>
         LET st == sanitize_html(wtg_data.comment.text).value.s
         IN  /\ Len(st) > 1000 =>
                  CommentTextIn(message.value.s)
                    = SubSeq(st, 1, 297) \o <<".", ".", ".">>
             /\ Len(st) <= 1000 => CommentTextIn(message.value.s) = st
             /\ Len(st) \in 301..1000 =>
                  Len(CommentTextIn(message.value.s)) = Len(st)

\* C18 witness: a text of 999 characters stands in full in the HTML message
C18_Witness ==
    /\ fphase = "format_game_message_html"
    /\ message.kind = "return"
    /\ wtg_data.comment.text = PyStr(Fill("a", 999))
    /\ CommentTextIn(message.value.s) = Fill("a", 999)

\* C19: sanitize_html turns '&' into '&amp;', '<' into '&lt;' and '>' into
\* '&gt;', each character of the (whitespace-normalised) input once: the
\* output holds no '<' and no '>', every '&' in it begins one of the three
\* entities, and sanitize_html("<b>&</b>") = "&lt;b&gt;&amp;&lt;/b&gt;".
C19_HtmlEscaped ==
    (fphase = "sanitize_html" /\ sanitized.kind = "return") =>
        LET out == sanitized.value.s
            norm == CollapseSpaces(Strip(wtg_data.comment.text.s))
        IN  /\ \A i \in 1..Len(out) : out[i] \notin {"<", ">"}
            /\ \A i \in 1..Len(out) :
                 out[i] = "&" => \/ StartsAt(out, i, AmpEntity)
                                 \/ StartsAt(out, i, LtEntity)
                                 \/ StartsAt(out, i, GtEntity)
            /\ out = Join([i \in 1..Len(norm) |->
                             CASE norm[i] = "&" -> AmpEntity
                               [] norm[i] = "<" -> LtEntity
                               [] norm[i] = ">" -> GtEntity
                               [] OTHER -> <<norm[i]>>])
            /\ wtg_data.comment.text.s = ExampleHtml =>
                 out = LtEntity \o <<"b">> \o GtEntity \o AmpEntity
                       \o LtEntity \o <<"/", "b">> \o GtEntity

\* C19 witness: the example of the claim
C19_Witness ==
    /\ fphase = "sanitize_html"
    /\ wtg_data.comment.text = PyStr(ExampleHtml)
    /\ sanitized.kind = "return"
    /\ Len(sanitized.value.s) = 24
    /\ StartsAt(sanitized.value.s, 10, AmpEntity)

\* the number of backslashes s ends with
TrailingBackslashes(s) ==
    Len(s) - Max({i \in 1..Len(s) : s[i] # "\\"} \cup {0})

\* C25 (as claimed): a comment text cut by the formatter never ends inside
\* an escape sequence: in the MarkdownV2 message what is kept before the
\* ellipsis does not end with an unpaired backslash, and in the HTML message
\* every '&' of what is kept begins a whole entity.
C25_TruncationKeepsEscapes ==
    /\ (fphase = "format_game_message" /\ message.kind = "return"
        /\ Len(sanitize_text(wtg_data.comment.text).value.s) > MdLimit) =>
         LET body == CommentTextIn(message.value.s)
             kept == SubSeq(body, 1, Len(body) - Len(MdEllipsis))
         IN  TrailingBackslashes(kept) % 2 = 0
    /\ (fphase = "format_game_message_html" /\ message.kind = "return"
        /\ Len(sanitize_html(wtg_data.comment.text).value.s) > HtmlLimit) =>
         LET body == CommentTextIn(message.value.s)
             kept == SubSeq(body, 1, Len(body) - Len(HtmlEllipsis))
         IN  \A i \in 1..Len(kept) :
                 kept[i] = "&" => \/ StartsAt(kept, i, AmpEntity)
                                  \/ StartsAt(kept, i, LtEntity)
                                  \/ StartsAt(kept, i, GtEntity)

(***************************************************************************)
(* scrape_game_page as one call (scraper.py lines 34-94): what it returns  *)
(* for URL u when the site answers the page GET with pr and, if the run    *)
(* gets that far, the API GET with ar.                                     *)
(***************************************************************************)
scrape_game_page(u, pr, ar) ==
    LET page == PageTry(pr)
    IN  IF page.kind = "raise" THEN scrape_except(page.exc).result
        ELSE
        LET g == extract_game_info(page.value, u)
        IN  IF g.kind = "raise" THEN scrape_except(g.exc).result
            ELSE IF GameInfoFailed(g.value) THEN None
            ELSE
            LET a == get_comment_from_api(ar, CommentIdOf(u))
            IN  IF a.kind = "raise" THEN scrape_except(a.exc).result
                ELSE
                LET c == IF NeedsFallback(a.value)
                         THEN extract_comment_info_fallback(page.value, CommentIdOf(u))
                         ELSE a
                IN  IF c.kind = "raise" THEN scrape_except(c.exc).result
                    ELSE Assemble(g.value, c.value, u).value

\* the step-by-step run of Spec returns what the one-call form returns
ScrapeStepsAgree ==
    (pc = "done" /\ ~raised) => result = scrape_game_page(url, page_resp, api_resp)

(***************************************************************************)
(* The bot's message handler (app.py): handle_message, process_wtg_link,   *)
(* _scrape_wtg_page, _send_game_info and _download_image.  A call to the   *)
(* Telegram API either succeeds or raises; the chat shows what the         *)
(* successful calls sent.                                                  *)
(***************************************************************************)
TelegramOutcomes == {"ok", "TelegramError"}

\* what scraper.download_image hands back: the image's bytes, or None
ImageBytes == PyStr(<<"J","F","I","F">>)
DownloadOutcomes == {ImageBytes, None}

FourLinks == Url1 \o <<" ">> \o Url2 \o <<"\n">> \o Url2 \o <<" ">> \o Url1
BotTexts ==
    {<<"h","i">>, OtherSite, Url1, <<"s","e","e"," ">> \o Url2 \o <<"!">>,
     Url2 \o <<" ">> \o Url1, Url1 \o <<" ">> \o OtherSite \o <<" ">> \o Url1,
     FourLinks}

\* LinksToProcess without the slice of line 122
LinksToProcess_all(ls) == ls

\* line 122: wtg_links[:3]
LinksToProcess(ls) == Take(ls, 3)

\* the handler's state with r as the new value of bot
BotStep(r) ==
    /\ bot' = r
    /\ UNCHANGED <<linkVars, scrapeVars, fmtVars, concVars>>

\* the link in hand is finished: process_wtg_link returns to the loop
LinkDone(r) == [r EXCEPT !.pc = "link_done"]

\* lines 108-122: the links of the message; no link, no further step
HandleMessage ==
    /\ bot.pc = "received"
    /\ LET ls == extract_wtg_links(bot.text)
       IN  IF ls = <<>>
           THEN BotStep([bot EXCEPT !.pc = "done"])
           ELSE BotStep([bot EXCEPT !.pc = "validate", !.wtg_links = ls,
                                    !.idx = 1, !.url = LinksToProcess(ls)[1]])

\* lines 128-134: an invalid link gets the error reply and nothing else
ValidateLink ==
    /\ bot.pc = "validate"
    /\ IF validate_wtg_url(bot.url)
       THEN BotStep([bot EXCEPT !.pc = "send_placeholder"])
       ELSE \E o \in TelegramOutcomes :
              IF o = "ok"
              THEN BotStep(LinkDone([bot EXCEPT !.events = Append(@, "reply_invalid")]))
              ELSE BotStep([bot EXCEPT !.pc = "reply_error"])

\* lines 137-140: the placeholder message
SendPlaceholder ==
    /\ bot.pc = "send_placeholder"
    /\ \E o \in TelegramOutcomes :
         IF o = "ok"
         THEN BotStep([bot EXCEPT !.pc = "scrape", !.placeholder = "processing",
                                  !.events = Append(@, "reply_processing")])
         ELSE BotStep([bot EXCEPT !.pc = "reply_error"])

\* lines 143-145 and 162-174: the scraper runs on the link
ScrapePage ==
    /\ bot.pc = "scrape"
    /\ \E pr \in PageResponses, ar \in ApiResponses :
         LET d == scrape_game_page(bot.url, pr, ar)
         IN  BotStep([bot EXCEPT !.wtg_data = d,
                                 !.invoked = Append(@, bot.url),
                                 !.pc = IF Truthy(d) THEN "format" ELSE "edit_failed"])

\* lines 146-150: no data, the placeholder becomes the failure text
EditFailed ==
    /\ bot.pc = "edit_failed"
    /\ \E o \in TelegramOutcomes :
         IF o = "ok"
         THEN BotStep(LinkDone([bot EXCEPT !.placeholder = "failed",
                                           !.events = Append(@, "edit_failed")]))
         ELSE BotStep([bot EXCEPT !.pc = "reply_error"])

\* lines 180-186: the message text; with an image URL the image comes first
FormatMessage ==
    /\ bot.pc = "format"
    /\ LET o == format_game_message_html(bot.wtg_data)
       IN  BotStep([bot EXCEPT !.message_text = o,
                               !.pc = IF o.kind = "raise" THEN "edit_format_error"
                                      ELSE IF Truthy(bot.wtg_data.game.image_url)
                                           THEN "download" ELSE "edit_result"])

\* lines 187-189 and 218-230
DownloadImage ==
    /\ bot.pc = "download"
    /\ \E img \in DownloadOutcomes :
         BotStep([bot EXCEPT !.image_data = img,
                             !.pc = IF Truthy(img) THEN "reply_photo" ELSE "edit_result"])

\* lines 190-196 and 202-203: the photo with the text as caption; a failure
\* is caught and the text is sent instead
ReplyPhoto ==
    /\ bot.pc = "reply_photo"
    /\ \E o \in TelegramOutcomes :
         IF o = "ok"
         THEN BotStep([bot EXCEPT !.pc = "delete", !.events = Append(@, "photo")])
         ELSE BotStep([bot EXCEPT !.pc = "edit_result"])

\* lines 199-203: the placeholder is deleted inside the same try block
DeletePlaceholder ==
    /\ bot.pc = "delete"
    /\ \E o \in TelegramOutcomes :
         IF o = "ok"
         THEN BotStep(LinkDone([bot EXCEPT !.placeholder = "deleted",
                                           !.events = Append(@, "delete")]))
         ELSE BotStep([bot EXCEPT !.pc = "edit_result"])

\* lines 206-210: the placeholder becomes the formatted text
EditResult ==
    /\ bot.pc = "edit_result"
    /\ \E o \in TelegramOutcomes :
         IF o = "ok"
         THEN BotStep(LinkDone([bot EXCEPT !.placeholder = "result",
                                           !.events = Append(@, "edit_result")]))
         ELSE BotStep([bot EXCEPT !.pc = "edit_format_error"])

\* lines 212-216: the except clause of _send_game_info
EditFormatError ==
    /\ bot.pc = "edit_format_error"
    /\ \E o \in TelegramOutcomes :
         IF o = "ok"
         THEN BotStep(LinkDone([bot EXCEPT !.placeholder = "format_error",
                                           !.events = Append(@, "edit_format_error")]))
         ELSE BotStep([bot EXCEPT !.pc = "reply_error"])

\* lines 155-160: the except clause of process_wtg_link; an exception of
\* its own reply leaves the handler
ReplyError ==
    /\ bot.pc = "reply_error"
    /\ \E o \in TelegramOutcomes :
         IF o = "ok"
         THEN BotStep(LinkDone([bot EXCEPT !.events = Append(@, "reply_error")]))
         ELSE BotStep([bot EXCEPT !.pc = "raised"])

\* lines 122-123: the loop goes on to the next link with fresh locals
NextLink ==
    /\ bot.pc = "link_done"
    /\ IF bot.idx < Len(LinksToProcess(bot.wtg_links))
       THEN BotStep([bot EXCEPT !.pc = "validate", !.idx = @ + 1,
                                !.url = LinksToProcess(bot.wtg_links)[bot.idx + 1],
                                !.placeholder = "none", !.events = <<>>,
                                !.wtg_data = None, !.message_text = NotRun,
                                !.image_data = None])
       ELSE BotStep([bot EXCEPT !.pc = "done"])

InitBot ==
    /\ bot \in {BotStart(t) : t \in BotTexts}
    /\ InitScrape
    /\ InitLinksIdle
    /\ InitFormatIdle
    /\ InitConcIdle

NextBot ==
    \/ HandleMessage
    \/ ValidateLink
    \/ SendPlaceholder
    \/ ScrapePage
    \/ EditFailed
    \/ FormatMessage
    \/ DownloadImage
    \/ ReplyPhoto
    \/ DeletePlaceholder
    \/ EditResult
    \/ EditFormatError
    \/ ReplyError
    \/ NextLink

SpecBot == InitBot /\ [][NextBot]_vars

BotTypeOK == bot.pc \in {"idle", "received", "validate", "send_placeholder", "scrape",
                         "edit_failed", "format", "download", "reply_photo", "delete",
                         "edit_result", "edit_format_error", "reply_error",
                         "link_done", "done", "raised"}

\* C21 (as claimed): whatever WTGData the scraper handed to the bot, both
\* formatters return a display string for it and the bot's own call of
\* format_game_message_html (app.py line 180) did not raise.
C21_FormatterTotal ==
    /\ Truthy(bot.wtg_data) =>
         /\ format_game_message_html(bot.wtg_data).kind = "return"
         /\ format_game_message(bot.wtg_data).kind = "return"
    /\ bot.message_text # NotRun => bot.message_text.kind = "return"

\* the URLs in xs are entries of ys at increasing positions, none past position n
PickedInOrder(xs, ys, n) ==
    \E f \in [1..Len(xs) -> 1..Len(ys)] :
        /\ \A k \in 1..Len(xs) : xs[k] = ys[f[k]] /\ f[k] <= n
        /\ \A j, k \in 1..Len(xs) : j < k => f[j] < f[k]

\* C23: the scraper is invoked only for links among the first three that
\* extract_wtg_links returns, each at most once, in encounter order, only
\* while the loop is at that link and only for a link that validate_wtg_url
\* accepts; a link that fails validation gets an error reply and no request;
\* a message with no link gets no reply and no request.
C23_OnlyFirstThreeValidInOrder ==
    LET found == extract_wtg_links(bot.text)
        first3 == Take(found, 3)
    IN  /\ bot.pc # "received" =>
             /\ Len(bot.invoked) <= Len(first3)
             /\ PickedInOrder(bot.invoked, first3, bot.idx)
        /\ \A k \in 1..Len(bot.invoked) : validate_wtg_url(bot.invoked[k])
        /\ (bot.idx >= 1 /\ ~validate_wtg_url(bot.url)) =>
             /\ bot.wtg_data = None /\ bot.image_data = None
             /\ bot.pc = "link_done" => bot.events \in {<<"reply_invalid">>, <<"reply_error">>}
        /\ found = <<>> =>
             /\ bot.pc \in {"received", "done"}
             /\ bot.events = <<>> /\ bot.invoked = <<>>
             /\ bot.placeholder = "none" /\ bot.image_data = None

\* a message with four links: the handler ended, three were scraped
C23_Witness ==
    /\ bot.pc = "done"
    /\ Len(extract_wtg_links(bot.text)) = 4
    /\ bot.invoked = <<Url1, Url2, Url2>>

\* what the chat shows for the link in hand
Shown(e) == \E k \in 1..Len(bot.events) : bot.events[k] = e

\* C24 (as claimed): once the placeholder was sent, processing of the link
\* ends with the placeholder deleted after a photo reply, or edited to the
\* formatted message, or edited to an error text; it is never left in its
\* processing state, and the user never gets both the photo reply and the
\* edited text.
C24_PlaceholderLifecycle ==
    (bot.pc \in {"link_done", "raised"} /\ Shown("reply_processing")) =>
        /\ bot.placeholder \in {"deleted", "result", "failed", "format_error"}
        /\ bot.placeholder = "deleted" => Shown("photo")
        /\ ~(Shown("photo") /\ Shown("edit_result"))

(***************************************************************************)
(* Concurrent calls of scrape_game_page on the module's one WTGScraper     *)
(* (app.py line 28, run_in_executor at lines 166-170).  Each call runs in  *)
(* a worker thread; its steps interleave with those of the other calls.    *)
(* The instance holds the session and nothing else (scraper.py lines       *)
(* 30-32); url, comment_id, game_slug, soup, game_info and comment_info    *)
(* are locals of the call.                                                 *)
(***************************************************************************)
\* the number of calls in flight at once
NumCalls == 2
Threads == 1..NumCalls

ConcUrls == {Url1, PatPrefix \o <<"y">> \o PatMiddle \o <<"a">>}
ConcPages ==
    {[net |-> "ok", parsed |-> TRUE, doc |-> DocFull],
     [net |-> "Timeout", parsed |-> FALSE, doc |-> NoDoc]}
ConcApis ==
    {[net |-> "ok", json |-> TRUE, body |-> PyDict([user_reviews |-> RevFull])],
     [net |-> "Timeout", json |-> FALSE, body |-> None]}

\* FrameOf when the locals are kept in one place for all calls, as
\* attributes of the shared instance would be
FrameOf_shared(t) == 1

\* lines 34-87: every call of scrape_game_page has a frame of its own
FrameOf(t) == t

NoFrame ==
    [url |-> <<>>, comment_id |-> <<>>, game_slug |-> <<>>, soup |-> NoDoc,
     game_info |-> NotRun, comment_info |-> NotRun]

NoCall ==
    [pc |-> "idle", arg |-> <<>>, page |-> NoResp, api |-> NoResp,
     result |-> NotReturned, overlapped |-> FALSE]

Running(t) == calls[t].pc \notin {"idle", "done"}

\* the call of thread t returns v
Returned(t, v) == [calls EXCEPT ![t].pc = "done", ![t].result = v]

\* lines 48-55: thread t enters scrape_game_page(u)
ThreadBegin(t) ==
    /\ calls[t].pc = "idle"
    /\ \E u \in ConcUrls :
         /\ calls' = [s \in Threads |->
                        IF s = t
                        THEN [calls[s] EXCEPT !.pc = "fetch", !.arg = u,
                                 !.overlapped = \E o \in Threads : o # t /\ Running(o)]
                        ELSE [calls[s] EXCEPT !.overlapped = @ \/ Running(s)]]
         /\ frames' = [frames EXCEPT ![FrameOf(t)] =
                         [NoFrame EXCEPT !.url = u, !.comment_id = CommentIdOf(u),
                                         !.game_slug = GameSlugOf(u)]]
    /\ UNCHANGED session
    /\ UNCHANGED <<linkVars, scrapeVars, fmtVars, botVars>>

\* lines 58-64: the page GET through the shared session, and the parse
ThreadFetchPage(t) ==
    /\ calls[t].pc = "fetch"
    /\ \E r \in ConcPages :
         IF PageTry(r).kind = "raise"
         THEN /\ calls' = [Returned(t, scrape_except(PageTry(r).exc).result)
                             EXCEPT ![t].page = r]
              /\ frames' = frames
         ELSE /\ calls' = [calls EXCEPT ![t].pc = "extract", ![t].page = r]
              /\ frames' = [frames EXCEPT ![FrameOf(t)].soup = PageTry(r).value]
    /\ session' = [session EXCEPT !.gets = @ + 1]
    /\ UNCHANGED <<linkVars, scrapeVars, fmtVars, botVars>>

\* lines 67-70
ThreadExtractGameInfo(t) ==
    /\ calls[t].pc = "extract"
    /\ LET f == frames[FrameOf(t)]
           o == extract_game_info(f.soup, f.url)
       IN  IF o.kind = "raise"
           THEN calls' = Returned(t, scrape_except(o.exc).result) /\ frames' = frames
           ELSE /\ frames' = [frames EXCEPT ![FrameOf(t)].game_info = o.value]
                /\ calls' = IF GameInfoFailed(o.value) THEN Returned(t, None)
                            ELSE [calls EXCEPT ![t].pc = "api"]
    /\ UNCHANGED session
    /\ UNCHANGED <<linkVars, scrapeVars, fmtVars, botVars>>

\* lines 73-75: the API GET through the shared session
ThreadCallApi(t) ==
    /\ calls[t].pc = "api"
    /\ \E r \in ConcApis :
         LET o == get_comment_from_api(r, frames[FrameOf(t)].comment_id)
         IN  IF o.kind = "raise"
             THEN /\ calls' = [Returned(t, scrape_except(o.exc).result) EXCEPT ![t].api = r]
                  /\ frames' = frames
             ELSE /\ frames' = [frames EXCEPT ![FrameOf(t)].comment_info = o.value]
                  /\ calls' = [calls EXCEPT ![t].api = r,
                                 ![t].pc = IF NeedsFallback(o.value) THEN "fallback"
                                           ELSE "assemble"]
    /\ session' = [session EXCEPT !.gets = @ + 1]
    /\ UNCHANGED <<linkVars, scrapeVars, fmtVars, botVars>>

\* line 77
ThreadRunFallback(t) ==
    /\ calls[t].pc = "fallback"
    /\ LET f == frames[FrameOf(t)]
           o == extract_comment_info_fallback(f.soup, f.comment_id)
       IN  IF o.kind = "raise"
           THEN calls' = Returned(t, scrape_except(o.exc).result) /\ frames' = frames
           ELSE /\ frames' = [frames EXCEPT ![FrameOf(t)].comment_info = o.value]
                /\ calls' = [calls EXCEPT ![t].pc = "assemble"]
    /\ UNCHANGED session
    /\ UNCHANGED <<linkVars, scrapeVars, fmtVars, botVars>>

\* lines 79-87
ThreadFinish(t) ==
    /\ calls[t].pc = "assemble"
    /\ LET f == frames[FrameOf(t)]
       IN  calls' = Returned(t, Assemble(f.game_info, f.comment_info, f.url).value)
    /\ UNCHANGED <<frames, session>>
    /\ UNCHANGED <<linkVars, scrapeVars, fmtVars, botVars>>

InitConc ==
    /\ calls = [t \in Threads |-> NoCall]
    /\ frames = [t \in Threads |-> NoFrame]
    /\ session = SessionNew
    /\ InitScrape
    /\ InitLinksIdle
    /\ InitFormatIdle
    /\ InitBotIdle

NextConc ==
    \/ \E t \in Threads : ThreadBegin(t)
    \/ \E t \in Threads : ThreadFetchPage(t)
    \/ \E t \in Threads : ThreadExtractGameInfo(t)
    \/ \E t \in Threads : ThreadCallApi(t)
    \/ \E t \in Threads : ThreadRunFallback(t)
    \/ \E t \in Threads : ThreadFinish(t)

SpecConc == InitConc /\ [][NextConc]_vars

\* C22: concurrent runs do not interfere.  The session is all the calls
\* share and its headers stay as set at construction; a running call's url,
\* ids and parsed document are those of its own argument and its own page
\* response, whatever the other calls do; and
\* what a call returns is what scrape_game_page returns for its own URL and
\* the answers to its own two requests, original_url and comment_id included.
C22_NoInterference ==
    /\ \A t \in Threads :
         LET c == calls[t]
             f == frames[FrameOf(t)]
         IN  /\ Running(t) =>
                   /\ f.url = c.arg
                   /\ f.comment_id = CommentIdOf(c.arg)
                   /\ f.soup # NoDoc => f.soup = PageTry(c.page).value
             /\ c.pc = "done" =>
                   /\ c.result = scrape_game_page(c.arg, c.page, c.api)
                   /\ Truthy(c.result) => c.result.original_url = PyStr(c.arg)
    /\ session.headers = SessionNew.headers

\* two calls that ran at the same time for different URLs, each with a
\* WTGData of its own
C22_Witness ==
    /\ \A t \in Threads : calls[t].pc = "done" /\ Truthy(calls[t].result)
    /\ calls[1].overlapped /\ calls[2].overlapped
    /\ calls[1].arg # calls[2].arg
    /\ calls[1].result # calls[2].result
    /\ calls[1].result.comment # calls[2].result.comment
=============================================================================
